---- MODULE Spec2Model ----
(***************************************************************************)
(* Unit conversion and density lookup of the recipe pipeline:              *)
(*   models/conversion.py   smart_round, UnitConverter                     *)
(*   agents/converter.py    ConverterAgent._convert_to_metric/imperial/... *)
(*   utils/density_lookup.py, utils/usda_api.py   DensityLookup, USDA API  *)
(*                                                                         *)
(* Numbers.  A quantity (a Python float in the source) is an integer       *)
(* number of hundredths: 33.8 fl oz is 3380.  Intermediate values are      *)
(* exact rationals [n |-> N, d |-> D] whose numerator and denominator are  *)
(* arbitrary-size naturals, held as little-endian sequences of base-1000   *)
(* limbs, so that products such as 33.8 * 29.5735 / 4.92892 are computed   *)
(* without overflow and rounded exactly once, as round() does.             *)
(***************************************************************************)
EXTENDS Integers, Sequences, FiniteSets, TLC

(***************************************************************************)
(* Arbitrary-size naturals                                                 *)
(***************************************************************************)
RECURSIVE Big(_)
Big(n) == IF n = 0 THEN <<>> ELSE <<n % 1000>> \o Big(n \div 1000)

RECURSIVE BigMul(_, _)

RECURSIVE MulCarry(_, _, _)
MulCarry(a, m, c) ==
    IF a = <<>> THEN Big(c)
    ELSE LET t == Head(a) * m + c
         IN  <<t % 1000>> \o MulCarry(Tail(a), m, t \div 1000)

\* a * m for a natural m; limb by limb while limb * m fits the integers
BigMulSmall(a, m) ==
    IF m = 0 \/ a = <<>> THEN <<>>
    ELSE IF m < 2000000 THEN MulCarry(a, m, 0)
    ELSE BigMul(a, Big(m))

RECURSIVE AddCarry(_, _, _)
AddCarry(a, b, c) ==
    IF a = <<>> /\ b = <<>> THEN Big(c)
    ELSE LET x == IF a = <<>> THEN 0 ELSE Head(a)
             y == IF b = <<>> THEN 0 ELSE Head(b)
             t == x + y + c
         IN  <<t % 1000>> \o AddCarry(IF a = <<>> THEN a ELSE Tail(a),
                                      IF b = <<>> THEN b ELSE Tail(b),
                                      t \div 1000)

BigAdd(a, b) == AddCarry(a, b, 0)

BigMul(a, b) ==
    IF a = <<>> \/ b = <<>> THEN <<>>
    ELSE LET rest == BigMul(a, Tail(b))
         IN  BigAdd(BigMulSmall(a, Head(b)),
                    IF rest = <<>> THEN rest ELSE <<0>> \o rest)

RECURSIVE CmpFrom(_, _, _)
CmpFrom(a, b, i) ==
    IF i = 0 THEN 0
    ELSE IF a[i] < b[i] THEN -1
    ELSE IF a[i] > b[i] THEN 1
    ELSE CmpFrom(a, b, i - 1)

\* -1, 0 or 1 as a < b, a = b, a > b
BigCmp(a, b) ==
    IF Len(a) < Len(b) THEN -1
    ELSE IF Len(a) > Len(b) THEN 1
    ELSE CmpFrom(a, b, Len(a))

RECURSIVE QuotAbove(_, _, _)
QuotAbove(n, d, h) ==
    IF BigCmp(n, BigMulSmall(d, h)) < 0 THEN h ELSE QuotAbove(n, d, 2 * h)

RECURSIVE QuotSearch(_, _, _, _)
QuotSearch(n, d, lo, hi) ==
    IF hi - lo <= 1 THEN lo
    ELSE LET mid == (lo + hi) \div 2
         IN  IF BigCmp(BigMulSmall(d, mid), n) <= 0
             THEN QuotSearch(n, d, mid, hi)
             ELSE QuotSearch(n, d, lo, mid)

\* floor(n / d) as a small natural, d > 0
BigFloorDiv(n, d) == QuotSearch(n, d, 0, QuotAbove(n, d, 1))

(***************************************************************************)
(* Exact non-negative rationals                                            *)
(***************************************************************************)
Rat(n, d) == [n |-> Big(n), d |-> Big(d)]

\* a quantity in hundredths as a rational
RatOfQty(q) == Rat(q, 100)

\* r * n / d for small naturals n, d
RatScale(r, n, d) == [n |-> BigMulSmall(r.n, n), d |-> BigMulSmall(r.d, d)]

RatMul(r, s) == [n |-> BigMul(r.n, s.n), d |-> BigMul(r.d, s.d)]

RatDiv(r, s) == [n |-> BigMul(r.n, s.d), d |-> BigMul(r.d, s.n)]

RatAdd(r, s) ==
    [n |-> BigAdd(BigMul(r.n, s.d), BigMul(s.n, r.d)), d |-> BigMul(r.d, s.d)]

RatCmp(r, s) == BigCmp(BigMul(r.n, s.d), BigMul(s.n, r.d))

RatEq(r, s) == RatCmp(r, s) = 0

RatLess(r, s) == RatCmp(r, s) < 0

RatLeq(r, s) == RatCmp(r, s) <= 0

(***************************************************************************)
(* round().  Python rounds the binary double nearest to the decimal value. *)
(* Away from a tie that is the integer nearest to the exact value.  At an  *)
(* exact decimal tie (0.005 pint, 0.015 l) the double lies just below or   *)
(* just above the tie, or on it (then the even neighbour is taken): the    *)
(* outcome is either neighbour, and fp says which one this run's           *)
(* arithmetic produces.                                                    *)
(***************************************************************************)
VARIABLE fp

\* q or q + 1, as the value is below (c < 0), above (c > 0) or on (c = 0) the
\* middle of the two
Neighbour(q, c) ==
    IF c < 0 THEN q
    ELSE IF c > 0 THEN q + 1
    ELSE IF fp = "down" THEN q ELSE q + 1

\* q is the integer part of r
RoundedFrom(r, q) ==
    Neighbour(q, BigCmp(BigMulSmall(r.n, 2), BigMulSmall(r.d, 2 * q + 1)))

RoundNearest(r) == RoundedFrom(r, BigFloorDiv(r.n, r.d))

\* round(value) : to an integer, in hundredths
PyRound0(r) == RoundNearest(r) * 100

\* round(value, 1) : to one decimal, in hundredths
PyRound1(r) == RoundNearest(RatScale(r, 10, 1)) * 10

\* round(value, 2) : to two decimals, in hundredths
PyRound2(r) == RoundNearest(RatScale(r, 100, 1))

(***************************************************************************)
(* Strings: str.lower(), str.upper(), the substring test `a in b`          *)
(***************************************************************************)
LowerChar(c) ==
    CASE c = "A" -> "a" [] c = "B" -> "b" [] c = "C" -> "c" [] c = "D" -> "d"
      [] c = "E" -> "e" [] c = "F" -> "f" [] c = "G" -> "g" [] c = "H" -> "h"
      [] c = "I" -> "i" [] c = "J" -> "j" [] c = "K" -> "k" [] c = "L" -> "l"
      [] c = "M" -> "m" [] c = "N" -> "n" [] c = "O" -> "o" [] c = "P" -> "p"
      [] c = "Q" -> "q" [] c = "R" -> "r" [] c = "S" -> "s" [] c = "T" -> "t"
      [] c = "U" -> "u" [] c = "V" -> "v" [] c = "W" -> "w" [] c = "X" -> "x"
      [] c = "Y" -> "y" [] c = "Z" -> "z" [] OTHER -> c

UpperChar(c) ==
    CASE c = "a" -> "A" [] c = "b" -> "B" [] c = "c" -> "C" [] c = "d" -> "D"
      [] c = "e" -> "E" [] c = "f" -> "F" [] c = "g" -> "G" [] c = "h" -> "H"
      [] c = "i" -> "I" [] c = "j" -> "J" [] c = "k" -> "K" [] c = "l" -> "L"
      [] c = "m" -> "M" [] c = "n" -> "N" [] c = "o" -> "O" [] c = "p" -> "P"
      [] c = "q" -> "Q" [] c = "r" -> "R" [] c = "s" -> "S" [] c = "t" -> "T"
      [] c = "u" -> "U" [] c = "v" -> "V" [] c = "w" -> "W" [] c = "x" -> "X"
      [] c = "y" -> "Y" [] c = "z" -> "Z" [] OTHER -> c

RECURSIVE StrLower(_)
StrLower(s) ==
    IF Len(s) = 0 THEN s
    ELSE LowerChar(SubSeq(s, 1, 1)) \o StrLower(SubSeq(s, 2, Len(s)))

RECURSIVE StrUpper(_)
StrUpper(s) ==
    IF Len(s) = 0 THEN s
    ELSE UpperChar(SubSeq(s, 1, 1)) \o StrUpper(SubSeq(s, 2, Len(s)))

\* Python's `t in s` for strings
StrContains(s, t) ==
    \/ Len(t) = 0
    \/ \E i \in 1..(Len(s) - Len(t) + 1) : SubSeq(s, i, i + Len(t) - 1) = t

(***************************************************************************)
(* models/conversion.py: units and conversion tables                       *)
(***************************************************************************)
VolumeUnit == {"ml", "l", "tsp", "tbsp", "fl oz", "cup", "pint", "quart", "gallon"}

WeightUnit == {"g", "kg", "oz", "lb"}

\* factor to ml as numerator / denominator: 4.92892 is 492892 / 100000
VOLUME_CONVERSIONS(u) ==
    CASE u = "ml"     -> Rat(1, 1)
      [] u = "l"      -> Rat(1000, 1)
      [] u = "tsp"    -> Rat(492892, 100000)
      [] u = "tbsp"   -> Rat(147868, 10000)
      [] u = "fl oz"  -> Rat(295735, 10000)
      [] u = "cup"    -> Rat(236588, 1000)
      [] u = "pint"   -> Rat(473176, 1000)
      [] u = "quart"  -> Rat(946353, 1000)
      [] u = "gallon" -> Rat(378541, 100)

\* factor to g
WEIGHT_CONVERSIONS(u) ==
    CASE u = "g"  -> Rat(1, 1)
      [] u = "kg" -> Rat(1000, 1)
      [] u = "oz" -> Rat(283495, 10000)
      [] u = "lb" -> Rat(453592, 1000)

\* the keys of INGREDIENT_DENSITIES in the dict's (insertion) order
DensityKeys ==
    << "flour", "sugar", "brown sugar", "butter", "oil", "honey", "milk",
       "water", "salt", "baking powder", "baking soda", "vanilla",
       "cocoa powder", "powdered sugar", "rice", "oats" >>

\* g/ml in hundredths: 0.54 is 54
DensityHundredths(k) ==
    CASE k = "flour" -> 54 [] k = "sugar" -> 85 [] k = "brown sugar" -> 95
      [] k = "butter" -> 91 [] k = "oil" -> 92 [] k = "honey" -> 142
      [] k = "milk" -> 103 [] k = "water" -> 100 [] k = "salt" -> 120
      [] k = "baking powder" -> 90 [] k = "baking soda" -> 220
      [] k = "vanilla" -> 88 [] k = "cocoa powder" -> 41
      [] k = "powdered sugar" -> 56 [] k = "rice" -> 75 [] k = "oats" -> 41

INGREDIENT_DENSITIES(k) == Rat(DensityHundredths(k), 100)

NoResult == [kind |-> "None"]

ValueError(prefix, from_unit, to_unit) ==
    [kind |-> "ValueError", message |-> prefix \o from_unit \o " or " \o to_unit]

\* ConversionResult with is_approximation defaulting to True
ConversionResult_approximate(oq, ou, cq, cu, factor) ==
    [kind |-> "ConversionResult",
     original_quantity |-> oq, original_unit |-> ou,
     converted_quantity |-> cq, converted_unit |-> cu,
     ingredient_name |-> "", conversion_factor |-> factor,
     is_approximation |-> TRUE, notes |-> ""]

\* ConversionResult with the model's defaults for the optional fields
ConversionResult(oq, ou, cq, cu, factor) ==
    [kind |-> "ConversionResult",
     original_quantity |-> oq, original_unit |-> ou,
     converted_quantity |-> cq, converted_unit |-> cu,
     ingredient_name |-> "", conversion_factor |-> factor,
     is_approximation |-> FALSE, notes |-> ""]

(***************************************************************************)
(* smart_round(value, unit): value is a rational, the result hundredths    *)
(***************************************************************************)
\* smart_round that truncates (int()) where the source rounds
smart_round_truncate(value, unit) ==
    IF unit \in {"ml", "g"}
    THEN IF RatLess(value, Rat(1, 1))
         THEN BigFloorDiv(BigMulSmall(value.n, 10), value.d) * 10
         ELSE BigFloorDiv(value.n, value.d) * 100
    ELSE BigFloorDiv(BigMulSmall(value.n, 100), value.d)

smart_round(value, unit) ==
    IF unit \in {"ml", "g"}
    THEN IF RatLess(value, Rat(1, 1)) THEN PyRound1(value)
         ELSE IF RatLess(value, Rat(10, 1)) THEN PyRound0(value)
         ELSE IF RatLess(value, Rat(100, 1)) THEN PyRound0(value)
         ELSE PyRound0(value)
    ELSE IF unit \in {"kg", "l"}
    THEN PyRound2(value)
    ELSE PyRound2(value)

(***************************************************************************)
(* UnitConverter                                                           *)
(***************************************************************************)
\* convert_volume with the two factors exchanged
convert_volume_swapped(quantity, from_unit, to_unit) ==
    IF StrLower(from_unit) \notin VolumeUnit \/ StrLower(to_unit) \notin VolumeUnit
    THEN ValueError("Invalid volume units: ", from_unit, to_unit)
    ELSE LET f == VOLUME_CONVERSIONS(StrLower(from_unit))
             t == VOLUME_CONVERSIONS(StrLower(to_unit))
         IN  ConversionResult(quantity, from_unit,
                              smart_round(RatDiv(RatMul(RatOfQty(quantity), t), f),
                                          to_unit),
                              to_unit, RatDiv(t, f))

convert_volume(quantity, from_unit, to_unit) ==
    IF StrLower(from_unit) \notin VolumeUnit \/ StrLower(to_unit) \notin VolumeUnit
    THEN ValueError("Invalid volume units: ", from_unit, to_unit)
    ELSE LET from_enum == StrLower(from_unit)
             to_enum == StrLower(to_unit)
             base_quantity == RatMul(RatOfQty(quantity), VOLUME_CONVERSIONS(from_enum))
             converted_quantity == RatDiv(base_quantity, VOLUME_CONVERSIONS(to_enum))
         IN  ConversionResult(quantity, from_unit,
                              smart_round(converted_quantity, to_unit), to_unit,
                              RatDiv(VOLUME_CONVERSIONS(from_enum),
                                     VOLUME_CONVERSIONS(to_enum)))

convert_weight(quantity, from_unit, to_unit) ==
    IF StrLower(from_unit) \notin WeightUnit \/ StrLower(to_unit) \notin WeightUnit
    THEN ValueError("Invalid weight units: ", from_unit, to_unit)
    ELSE LET from_enum == StrLower(from_unit)
             to_enum == StrLower(to_unit)
             base_quantity == RatMul(RatOfQty(quantity), WEIGHT_CONVERSIONS(from_enum))
             converted_quantity == RatDiv(base_quantity, WEIGHT_CONVERSIONS(to_enum))
         IN  ConversionResult(quantity, from_unit,
                              smart_round(converted_quantity, to_unit), to_unit,
                              RatDiv(WEIGHT_CONVERSIONS(from_enum),
                                     WEIGHT_CONVERSIONS(to_enum)))

\* round(num / den, 1) in hundredths for an integer num of either sign
SignedRound1(num, den) ==
    IF num >= 0 THEN PyRound1(Rat(num, den)) ELSE 0 - PyRound1(Rat(0 - num, den))

\* temperature in hundredths of a degree
convert_temperature(temperature, from_unit0, to_unit0) ==
    LET from_unit == StrUpper(from_unit0)
        to_unit == StrUpper(to_unit0)
    IN  IF from_unit = to_unit
        THEN ConversionResult(temperature, from_unit, temperature, to_unit, Rat(1, 1))
        ELSE IF from_unit = "F" /\ to_unit = "C"
        THEN ConversionResult(temperature, from_unit,
                              SignedRound1((temperature - 3200) * 5, 900),
                              to_unit, Rat(0, 1))
        ELSE IF from_unit = "C" /\ to_unit = "F"
        THEN ConversionResult(temperature, from_unit,
                              SignedRound1(temperature * 9 + 3200 * 5, 500),
                              to_unit, Rat(0, 1))
        ELSE ValueError("Invalid temperature units: ", from_unit, to_unit)

\* _find_ingredient_key without the partial match
_find_ingredient_key_direct(ingredient_name) ==
    IF \E i \in 1..Len(DensityKeys) : DensityKeys[i] = StrLower(ingredient_name)
    THEN StrLower(ingredient_name)
    ELSE ""

RECURSIVE PartialMatch(_, _)
PartialMatch(ingredient_lower, i) ==
    IF i > Len(DensityKeys) THEN ""
    ELSE IF \/ StrContains(ingredient_lower, DensityKeys[i])
            \/ StrContains(DensityKeys[i], ingredient_lower)
    THEN DensityKeys[i]
    ELSE PartialMatch(ingredient_lower, i + 1)

\* the matching key, or "" for None
_find_ingredient_key(ingredient_name) ==
    LET ingredient_lower == StrLower(ingredient_name)
    IN  IF \E i \in 1..Len(DensityKeys) : DensityKeys[i] = ingredient_lower
        THEN ingredient_lower
        ELSE PartialMatch(ingredient_lower, 1)

NoteFor(ingredient_name) ==
    "Approximation based on typical density of " \o ingredient_name

volume_to_weight(quantity, volume_unit, ingredient_name) ==
    LET ingredient_key == _find_ingredient_key(ingredient_name)
    IN  IF ingredient_key = "" THEN NoResult
        ELSE IF StrLower(volume_unit) \notin VolumeUnit THEN NoResult
        ELSE LET density == INGREDIENT_DENSITIES(ingredient_key)
                 volume_ml == RatMul(RatOfQty(quantity),
                                     VOLUME_CONVERSIONS(StrLower(volume_unit)))
                 weight_g == RatMul(volume_ml, density)
             IN  [ConversionResult(quantity, volume_unit,
                                   smart_round(weight_g, "g"), "g", density)
                  EXCEPT !.ingredient_name = ingredient_name,
                         !.is_approximation = TRUE,
                         !.notes = NoteFor(ingredient_name)]

weight_to_volume(quantity, weight_unit, ingredient_name) ==
    LET ingredient_key == _find_ingredient_key(ingredient_name)
    IN  IF ingredient_key = "" THEN NoResult
        ELSE IF StrLower(weight_unit) \notin WeightUnit THEN NoResult
        ELSE LET density == INGREDIENT_DENSITIES(ingredient_key)
                 weight_g == RatMul(RatOfQty(quantity),
                                    WEIGHT_CONVERSIONS(StrLower(weight_unit)))
                 volume_ml == RatDiv(weight_g, density)
             IN  [ConversionResult(quantity, weight_unit,
                                   smart_round(volume_ml, "ml"), "ml",
                                   RatDiv(Rat(1, 1), density))
                  EXCEPT !.ingredient_name = ingredient_name,
                         !.is_approximation = TRUE,
                         !.notes = NoteFor(ingredient_name)]

(***************************************************************************)
(* agents/converter.py: ConverterAgent, one ingredient                     *)
(* An ingredient is [name, quantity, unit]; quantity NoQuantity and the    *)
(* strings "" stand for None.                                              *)
(***************************************************************************)
NoQuantity == 0 - 1

\* Python's `not ingredient.quantity`: None or 0
Falsy(quantity) == quantity = NoQuantity \/ quantity = 0

\* the re-bucketing that returns the kg conversion itself
\* the result again as kg when it is 1000 g or more
RebucketKg(result) ==
    IF result.converted_quantity >= 100000
    THEN LET kg_result == convert_weight(result.converted_quantity, "g", "kg")
         IN  [result EXCEPT !.converted_quantity = kg_result.converted_quantity,
                            !.converted_unit = "kg"]
    ELSE result

_convert_to_metric(ingredient) ==
    IF Falsy(ingredient.quantity) \/ ingredient.unit = "" THEN NoResult
    ELSE LET unit == StrLower(ingredient.unit)
         IN  IF unit \in {"cup", "tbsp", "tsp", "fl oz", "pint", "quart", "gallon"}
             THEN LET result == convert_volume(ingredient.quantity, unit, "ml")
                  IN  IF result.converted_quantity >= 100000
                      THEN convert_volume(ingredient.quantity, unit, "l")
                      ELSE result
             ELSE IF unit \in {"oz", "lb"}
             THEN LET result == convert_weight(ingredient.quantity, unit, "g")
                  IN  IF result.converted_quantity >= 100000
                      THEN convert_weight(ingredient.quantity, unit, "kg")
                      ELSE result
             ELSE IF unit \in {"cup", "tbsp", "tsp"} /\ ingredient.name # ""
             THEN LET result == volume_to_weight(ingredient.quantity, unit,
                                                 ingredient.name)
                  IN  IF result = NoResult THEN NoResult ELSE RebucketKg(result)
             ELSE NoResult

\* the choice with < where the source has <=
ImperialVolume_strict(quantity_ml, unit) ==
    IF quantity_ml < 1500 THEN convert_volume(quantity_ml, unit, "tsp")
    ELSE IF quantity_ml < 6000 THEN convert_volume(quantity_ml, unit, "tbsp")
    ELSE convert_volume(quantity_ml, unit, "cup")

\* ml to tsp (<= 15), tbsp (<= 60) or cup
ImperialVolume(quantity_ml, unit) ==
    IF quantity_ml <= 1500 THEN convert_volume(quantity_ml, unit, "tsp")
    ELSE IF quantity_ml <= 6000 THEN convert_volume(quantity_ml, unit, "tbsp")
    ELSE convert_volume(quantity_ml, unit, "cup")

_convert_to_imperial(ingredient) ==
    IF Falsy(ingredient.quantity) \/ ingredient.unit = "" THEN NoResult
    ELSE LET unit == StrLower(ingredient.unit)
         IN  IF unit \in {"ml", "l"}
             THEN IF unit = "ml"
                  THEN ImperialVolume(ingredient.quantity, unit)
                  ELSE convert_volume(ingredient.quantity, unit, "cup")
             ELSE IF unit \in {"g", "kg"}
             THEN IF unit = "g" /\ ingredient.quantity < 45400
                  THEN convert_weight(ingredient.quantity, unit, "oz")
                  ELSE convert_weight(ingredient.quantity, unit, "lb")
             ELSE IF unit \in {"g", "kg"} /\ ingredient.name # ""
             THEN LET result == weight_to_volume(ingredient.quantity, unit,
                                                 ingredient.name)
                  IN  IF result # NoResult /\ result.converted_unit = "ml"
                      THEN LET imperial_result ==
                                   ImperialVolume(result.converted_quantity, "ml")
                           IN  [result EXCEPT
                                  !.converted_quantity = imperial_result.converted_quantity,
                                  !.converted_unit = imperial_result.converted_unit]
                      ELSE NoResult
             ELSE NoResult

_convert_to_weight(ingredient) ==
    IF Falsy(ingredient.quantity) \/ ingredient.unit = "" \/ ingredient.name = ""
    THEN NoResult
    ELSE LET unit == StrLower(ingredient.unit)
         IN  IF unit \in {"cup", "tbsp", "tsp", "ml", "l", "fl oz"}
             THEN LET result == volume_to_weight(ingredient.quantity, unit,
                                                 ingredient.name)
                  IN  IF result = NoResult THEN NoResult ELSE RebucketKg(result)
             ELSE IF unit \in {"oz", "lb"}
             THEN IF unit = "oz" /\ ingredient.quantity >= 1600
                  THEN convert_weight(ingredient.quantity, unit, "lb")
                  ELSE IF unit = "lb"
                  THEN convert_weight(ingredient.quantity, unit, "kg")
                  ELSE NoResult
             ELSE NoResult

(***************************************************************************)
(* Regular expressions of DensityLookup._normalize_ingredient_name, each   *)
(* as the scan re.sub makes over the string.  \s is the space character.   *)
(***************************************************************************)
Char(s, i) == SubSeq(s, i, i)

WordChars ==
    {"a", "b", "c", "d", "e", "f", "g", "h", "i", "j", "k", "l", "m", "n",
     "o", "p", "q", "r", "s", "t", "u", "v", "w", "x", "y", "z", "_",
     "0", "1", "2", "3", "4", "5", "6", "7", "8", "9",
     "A", "B", "C", "D", "E", "F", "G", "H", "I", "J", "K", "L", "M", "N",
     "O", "P", "Q", "R", "S", "T", "U", "V", "W", "X", "Y", "Z"}

\* \w at position i
IsWordAt(s, i) == i >= 1 /\ i <= Len(s) /\ Char(s, i) \in WordChars

\* \b before a word character at position i
BoundaryBefore(s, i) == ~IsWordAt(s, i - 1)

\* the length of the run of spaces (\s*) starting at position i
RECURSIVE SpacesAt(_, _)
SpacesAt(s, i) ==
    IF i <= Len(s) /\ Char(s, i) = " " THEN 1 + SpacesAt(s, i + 1) ELSE 0

\* the length of the run of word characters (\w*) starting at position i
RECURSIVE WordRunAt(_, _)
WordRunAt(s, i) == IF IsWordAt(s, i) THEN 1 + WordRunAt(s, i + 1) ELSE 0

StartsWithAt(s, i, w) == i + Len(w) - 1 <= Len(s) /\ SubSeq(s, i, i + Len(w) - 1) = w

\* \b(w1|w2|...)\b at position i: the length matched, 0 for no match
RECURSIVE MatchWordAt(_, _, _, _)
MatchWordAt(s, i, words, k) ==
    IF k > Len(words) \/ ~BoundaryBefore(s, i) THEN 0
    ELSE IF StartsWithAt(s, i, words[k]) /\ ~IsWordAt(s, i + Len(words[k]))
         THEN Len(words[k])
         ELSE MatchWordAt(s, i, words, k + 1)

\* \b(w1|w2|...)\s+\w+ at position i: the length matched, 0 for no match
RECURSIVE MatchWordThenWordAt(_, _, _, _)
MatchWordThenWordAt(s, i, words, k) ==
    IF k > Len(words) \/ ~BoundaryBefore(s, i) THEN 0
    ELSE LET after == i + Len(words[k])
             spaces == SpacesAt(s, after)
             run == WordRunAt(s, after + spaces)
         IN  IF StartsWithAt(s, i, words[k]) /\ spaces >= 1 /\ run >= 1
             THEN Len(words[k]) + spaces + run
             ELSE MatchWordThenWordAt(s, i, words, k + 1)

\* the position of the first c at or after position i, 0 when there is none
RECURSIVE FindChar(_, _, _)
FindChar(s, c, i) ==
    IF i > Len(s) THEN 0
    ELSE IF Char(s, i) = c THEN i ELSE FindChar(s, c, i + 1)

\* \s*\([^)]*\) at position i: the length matched, 0 for no match
MatchParenAt(s, i) ==
    LET open == i + SpacesAt(s, i)
        close == FindChar(s, ")", open + 1)
    IN  IF open <= Len(s) /\ Char(s, open) = "(" /\ close > 0
        THEN close - i + 1 ELSE 0

\* \s*,.*$ at position i: the length matched, 0 for no match
MatchCommaAt(s, i) ==
    LET comma == i + SpacesAt(s, i)
    IN  IF comma <= Len(s) /\ Char(s, comma) = "," THEN Len(s) - i + 1 ELSE 0

\* \s+ at position i
MatchSpacesAt(s, i) == SpacesAt(s, i)

MatchAt(pattern, s, i) ==
    CASE pattern.kind = "words" -> MatchWordAt(s, i, pattern.words, 1)
      [] pattern.kind = "words_then_word" -> MatchWordThenWordAt(s, i, pattern.words, 1)
      [] pattern.kind = "paren" -> MatchParenAt(s, i)
      [] pattern.kind = "comma" -> MatchCommaAt(s, i)
      [] pattern.kind = "spaces" -> MatchSpacesAt(s, i)

\* re.sub(pattern, repl, s), scanning from position i
RECURSIVE ReSubFrom(_, _, _, _)
ReSubFrom(pattern, repl, s, i) ==
    IF i > Len(s) THEN ""
    ELSE LET m == MatchAt(pattern, s, i)
         IN  IF m > 0 THEN repl \o ReSubFrom(pattern, repl, s, i + m)
             ELSE Char(s, i) \o ReSubFrom(pattern, repl, s, i + 1)

ReSub(pattern, repl, s) == ReSubFrom(pattern, repl, s, 1)

\* str.strip()
RECURSIVE StrStrip(_)
StrStrip(s) ==
    IF Len(s) = 0 THEN s
    ELSE IF Char(s, 1) = " " THEN StrStrip(SubSeq(s, 2, Len(s)))
    ELSE IF Char(s, Len(s)) = " " THEN StrStrip(SubSeq(s, 1, Len(s) - 1))
    ELSE s

\* str.split(): the words between runs of spaces
RECURSIVE StrSplit(_)
StrSplit(s0) ==
    LET s == StrStrip(s0)
        sp == FindChar(s, " ", 1)
    IN  IF Len(s) = 0 THEN <<>>
        ELSE IF sp = 0 THEN <<s>>
        ELSE <<SubSeq(s, 1, sp - 1)>> \o StrSplit(SubSeq(s, sp + 1, Len(s)))

descriptors_to_remove ==
    << [kind |-> "words",
        words |-> <<"fresh", "dried", "frozen", "canned", "bottled", "raw",
                    "cooked", "boiled", "steamed">>],
       [kind |-> "words", words |-> <<"organic", "natural", "pure">>],
       [kind |-> "words_then_word", words |-> <<"with", "without", "added", "no">>],
       [kind |-> "words", words |-> <<"unsweetened", "sweetened">>],
       [kind |-> "paren"],
       [kind |-> "comma"] >>

RECURSIVE RemoveDescriptors(_, _)
RemoveDescriptors(name, k) ==
    IF k > Len(descriptors_to_remove) THEN name
    ELSE RemoveDescriptors(ReSub(descriptors_to_remove[k], "", name), k + 1)

_normalize_ingredient_name(name) ==
    StrStrip(ReSub([kind |-> "spaces"], " ", RemoveDescriptors(StrLower(name), 1)))

(***************************************************************************)
(* Small exact fractions for densities and similarity scores: num / den    *)
(* with den > 0.                                                           *)
(***************************************************************************)
Frac(num, den) == [num |-> num, den |-> den]

FracLess(x, y) == x.num * y.den < y.num * x.den

FracLeq(x, y) == x.num * y.den <= y.num * x.den

\* None, as the value of an Optional
None == [kind |-> "None"]

(***************************************************************************)
(* float(str) for plain decimal numerals: an optional sign, digits, and an *)
(* optional point followed by digits                                       *)
(***************************************************************************)
Digits == <<"0", "1", "2", "3", "4", "5", "6", "7", "8", "9">>

IsDigit(c) == \E d \in 1..10 : Digits[d] = c

DigitValue(c) == (CHOOSE d \in 1..10 : Digits[d] = c) - 1

AllDigits(s) == \A i \in 1..Len(s) : IsDigit(Char(s, i))

RECURSIVE DigitsValue(_)
DigitsValue(s) ==
    IF Len(s) = 0 THEN 0
    ELSE 10 * DigitsValue(SubSeq(s, 1, Len(s) - 1)) + DigitValue(Char(s, Len(s)))

RECURSIVE PowerOfTen(_)
PowerOfTen(n) == IF n = 0 THEN 1 ELSE 10 * PowerOfTen(n - 1)

\* float(s) of an unsigned numeral
UnsignedFloat(s) ==
    LET point == FindChar(s, ".", 1)
        whole == IF point = 0 THEN s ELSE SubSeq(s, 1, point - 1)
        part == IF point = 0 THEN "" ELSE SubSeq(s, point + 1, Len(s))
    IN  IF AllDigits(whole) /\ AllDigits(part) /\ Len(whole) + Len(part) > 0
        THEN [kind |-> "float",
              value |-> Frac(DigitsValue(whole) * PowerOfTen(Len(part)) + DigitsValue(part),
                             PowerOfTen(Len(part)))]
        ELSE [kind |-> "ValueError"]

float(s0) ==
    LET s == StrStrip(s0)
        signed == Len(s) > 0 /\ Char(s, 1) \in {"-", "+"}
        u == UnsignedFloat(IF signed THEN SubSeq(s, 2, Len(s)) ELSE s)
    IN  IF u.kind = "float" /\ signed /\ Char(s, 1) = "-"
        THEN [u EXCEPT !.value.num = 0 - u.value.num]
        ELSE u

\* the number of occurrences of the character c in s
RECURSIVE CountChar(_, _)
CountChar(s, c) ==
    IF Len(s) = 0 THEN 0
    ELSE (IF Char(s, 1) = c THEN 1 ELSE 0) + CountChar(SubSeq(s, 2, Len(s)), c)

\* DensityLookup._parse_density_value; an empty cell is read as NaN
_parse_density_value(density_str0) ==
    LET density_str == StrStrip(density_str0)
        dash == FindChar(density_str, "-", 1)
        low == float(SubSeq(density_str, 1, dash - 1))
        high == float(SubSeq(density_str, dash + 1, Len(density_str)))
        single == float(density_str)
    IN  IF density_str0 = "" THEN None
        ELSE IF /\ CountChar(density_str, "-") = 1
                /\ low.kind = "float" /\ high.kind = "float"
        THEN Frac(low.value.num * high.value.den + high.value.num * low.value.den,
                  2 * low.value.den * high.value.den)
        ELSE IF single.kind = "float" THEN single.value
        ELSE None

(***************************************************************************)
(* difflib.SequenceMatcher(None, a, b).ratio() for strings shorter than    *)
(* the 200 characters at which the junk heuristic starts                   *)
(***************************************************************************)
\* the length of the common run of a from i and b from j, below ahi and bhi
RECURSIVE CommonLen(_, _, _, _, _, _)
CommonLen(a, b, i, j, ahi, bhi) ==
    IF i < ahi /\ j < bhi /\ Char(a, i) = Char(b, j)
    THEN 1 + CommonLen(a, b, i + 1, j + 1, ahi, bhi)
    ELSE 0

\* the longest matching block in a[alo, ahi) and b[blo, bhi), the earliest
\* in a and then the earliest in b: <<i, j, size>>
find_longest_match(a, b, alo, ahi, blo, bhi) ==
    LET pairs == (alo .. ahi - 1) \X (blo .. bhi - 1)
        size == [p \in pairs |-> CommonLen(a, b, p[1], p[2], ahi, bhi)]
        longest == CHOOSE p \in pairs : \A q \in pairs :
                       \/ size[q] < size[p]
                       \/ size[q] = size[p] /\ (p[1] < q[1] \/ (p[1] = q[1] /\ p[2] <= q[2]))
    IN  IF pairs = {} THEN <<alo, blo, 0>>
        ELSE IF size[longest] = 0 THEN <<alo, blo, 0>>
        ELSE <<longest[1], longest[2], size[longest]>>

\* the total size of get_matching_blocks() within the two ranges
RECURSIVE MatchingSize(_, _, _, _, _, _)
MatchingSize(a, b, alo, ahi, blo, bhi) ==
    LET m == find_longest_match(a, b, alo, ahi, blo, bhi)
    IN  IF m[3] = 0 THEN 0
        ELSE m[3] + MatchingSize(a, b, alo, m[1], blo, m[2])
                  + MatchingSize(a, b, m[1] + m[3], ahi, m[2] + m[3], bhi)

ratio(a, b) ==
    IF Len(a) + Len(b) = 0 THEN Frac(1, 1)
    ELSE Frac(2 * MatchingSize(a, b, 1, Len(a) + 1, 1, Len(b) + 1), Len(a) + Len(b))

(***************************************************************************)
(* DensityLookup: the table, its search index and the local strategies.    *)
(* A file is a sequence of rows [name, density, category, biblio] holding  *)
(* the cells as text; densities_df holds the rows that were kept, with the *)
(* two computed columns.                                                   *)
(***************************************************************************)
RECURSIVE _load_densities(_)
_load_densities(file) ==
    IF Len(file) = 0 THEN <<>>
    ELSE LET cells == file[Len(file)]
             density_g_ml == _parse_density_value(cells.density)
             row == [name |-> cells.name, category |-> cells.category,
                     biblio |-> cells.biblio, density_g_ml |-> density_g_ml,
                     search_name |-> _normalize_ingredient_name(cells.name)]
         IN  _load_densities(SubSeq(file, 1, Len(file) - 1))
                 \o (IF density_g_ml = None THEN <<>> ELSE <<row>>)

\* the position of key in the index, 0 when it is not a key
RECURSIVE IndexPos(_, _, _)
IndexPos(index, key, i) ==
    IF i > Len(index) THEN 0
    ELSE IF index[i].key = key THEN i ELSE IndexPos(index, key, i + 1)

\* search_index[search_name] = row
IndexSetRow(index, key, r) ==
    LET pos == IndexPos(index, key, 1)
        entry == [key |-> key, is_list |-> FALSE, rows |-> <<r>>]
    IN  IF pos = 0 THEN Append(index, entry) ELSE [index EXCEPT ![pos] = entry]

\* the three statements that add row r under one of its words
IndexAddWord(index, word, r) ==
    LET pos == IndexPos(index, word, 1)
    IN  IF pos = 0
        THEN Append(index, [key |-> word, is_list |-> TRUE, rows |-> <<r>>])
        ELSE [index EXCEPT ![pos] = [key |-> word, is_list |-> TRUE,
                                     rows |-> Append(index[pos].rows, r)]]

RECURSIVE IndexAddWords(_, _, _, _)
IndexAddWords(index, words, k, r) ==
    IF k > Len(words) THEN index
    ELSE IndexAddWords(IF Len(words[k]) > 2 THEN IndexAddWord(index, words[k], r) ELSE index,
                       words, k + 1, r)

\* _build_search_index over the rows 1..r of the table; an entry holds the
\* numbers of its rows, a single one when its value is a row and not a list
RECURSIVE BuildIndexUpTo(_, _)
BuildIndexUpTo(df, r) ==
    IF r = 0 THEN <<>>
    ELSE LET index == BuildIndexUpTo(df, r - 1)
             search_name == df[r].search_name
         IN  IF search_name = "" THEN index
             ELSE IndexAddWords(IndexSetRow(index, search_name, r),
                                StrSplit(search_name), 1, r)

_build_search_index(df) == BuildIndexUpTo(df, Len(df))

_format_density_result(row, score) ==
    [kind |-> "density", name |-> row.name, category |-> row.category,
     density_g_ml |-> row.density_g_ml, source |-> row.biblio,
     match_score |-> score, search_name |-> row.search_name]

\* the update of best_match and best_score by one candidate row
BetterMatch(best, normalized_name, df, r, threshold) ==
    LET similarity == ratio(normalized_name, df[r].search_name)
    IN  IF FracLess(best.score, similarity) /\ FracLeq(threshold, similarity)
        THEN [row |-> r, score |-> similarity]
        ELSE best

\* the fuzzy loop over the entries of the index from position i
RECURSIVE FuzzyLoop(_, _, _, _, _, _)
FuzzyLoop(best, normalized_name, df, index, i, threshold) ==
    IF i > Len(index) THEN best
    ELSE FuzzyLoop(IF index[i].is_list THEN best
                   ELSE BetterMatch(best, normalized_name, df, index[i].rows[1], threshold),
                   normalized_name, df, index, i + 1, threshold)

\* the loop over the rows listed under one word
RECURSIVE WordRowsLoop(_, _, _, _, _, _)
WordRowsLoop(best, normalized_name, df, rows, k, threshold) ==
    IF k > Len(rows) THEN best
    ELSE WordRowsLoop(BetterMatch(best, normalized_name, df, rows[k], threshold),
                      normalized_name, df, rows, k + 1, threshold)

\* the partial loop over the words of the query from word k
RECURSIVE WordsLoop(_, _, _, _, _, _, _)
WordsLoop(best, normalized_name, df, index, words, k, threshold) ==
    IF k > Len(words) THEN best
    ELSE LET pos == IndexPos(index, words[k], 1)
         IN  WordsLoop(IF pos > 0 /\ index[pos].is_list
                       THEN WordRowsLoop(best, normalized_name, df, index[pos].rows, 1, threshold)
                       ELSE best,
                       normalized_name, df, index, words, k + 1, threshold)

_find_density_local(df, index, ingredient_name, threshold) ==
    LET normalized_name == _normalize_ingredient_name(ingredient_name)
        pos == IndexPos(index, normalized_name, 1)
        nothing == [row |-> 0, score |-> Frac(0, 1)]
        fuzzy == FuzzyLoop(nothing, normalized_name, df, index, 1, threshold)
        partial == WordsLoop(nothing, normalized_name, df, index,
                             StrSplit(normalized_name), 1, threshold)
    IN  IF Len(df) = 0 THEN None
        ELSE IF pos > 0 /\ ~index[pos].is_list
        THEN _format_density_result(df[index[pos].rows[1]], Frac(1, 1))
        ELSE IF fuzzy.row # 0 THEN _format_density_result(df[fuzzy.row], fuzzy.score)
        ELSE IF partial.row # 0 THEN _format_density_result(df[partial.row], partial.score)
        ELSE None

(***************************************************************************)
(* USDAFoodAPI: portion descriptions, millilitres, the density of a        *)
(* portion                                                                 *)
(***************************************************************************)
\* the length of the run of digits (\d*) starting at position i
RECURSIVE DigitRunAt(_, _)
DigitRunAt(s, i) ==
    IF i <= Len(s) /\ IsDigit(Char(s, i)) THEN 1 + DigitRunAt(s, i + 1) ELSE 0

\* \d+(?:\.\d+)? at position i: the length matched, 0 for no match
NumberAt(s, i) ==
    LET whole == DigitRunAt(s, i)
        part == IF i + whole <= Len(s) /\ Char(s, i + whole) = "."
                THEN DigitRunAt(s, i + whole + 1) ELSE 0
    IN  IF whole = 0 THEN 0 ELSE IF part = 0 THEN whole ELSE whole + 1 + part

\* the literals of a pattern, each after \s*, from position p: do they match
RECURSIVE LiteralsAt(_, _, _, _)
LiteralsAt(s, p, literals, k) ==
    IF k > Len(literals) THEN TRUE
    ELSE LET q == p + SpacesAt(s, p)
         IN  /\ StartsWithAt(s, q, literals[k])
             /\ LiteralsAt(s, q + Len(literals[k]), literals, k + 1)

\* re.search of (\d+(?:\.\d+)?)\s*literal...: group 1 of the leftmost match
\* at or after position i, "" for no match
RECURSIVE SearchAmount(_, _, _)
SearchAmount(s, literals, i) ==
    IF i > Len(s) THEN ""
    ELSE LET n == NumberAt(s, i)
         IN  IF n > 0 /\ LiteralsAt(s, i + n, literals, 1)
             THEN SubSeq(s, i, i + n - 1)
             ELSE SearchAmount(s, literals, i + 1)

volume_patterns ==
    << [literals |-> <<"cup">>, unit |-> "cup"],
       [literals |-> <<"tablespoon">>, unit |-> "tablespoon"],
       [literals |-> <<"tbsp">>, unit |-> "tablespoon"],
       [literals |-> <<"teaspoon">>, unit |-> "teaspoon"],
       [literals |-> <<"tsp">>, unit |-> "teaspoon"],
       [literals |-> <<"fluid", "ounce">>, unit |-> "fluid ounce"],
       [literals |-> <<"fl", "oz">>, unit |-> "fluid ounce"],
       [literals |-> <<"milliliter">>, unit |-> "ml"],
       [literals |-> <<"ml">>, unit |-> "ml"],
       [literals |-> <<"liter">>, unit |-> "liter"],
       [literals |-> <<"pint">>, unit |-> "pint"],
       [literals |-> <<"quart">>, unit |-> "quart"],
       [literals |-> <<"gallon">>, unit |-> "gallon"] >>

RECURSIVE ParsePortionFrom(_, _)
ParsePortionFrom(description, k) ==
    IF k > Len(volume_patterns) THEN None
    ELSE LET group == SearchAmount(description, volume_patterns[k].literals, 1)
         IN  IF group # ""
             THEN [kind |-> "volume", amount |-> float(group).value,
                   unit |-> volume_patterns[k].unit]
             ELSE ParsePortionFrom(description, k + 1)

_parse_portion_description(description) ==
    ParsePortionFrom(StrStrip(StrLower(description)), 1)

\* the conversions of _convert_to_ml in the order of the dictionary, the
\* factors in thousandths of a millilitre
conversions ==
    << <<"cup", 236588>>, <<"cups", 236588>>,
       <<"tablespoon", 14787>>, <<"tablespoons", 14787>>, <<"tbsp", 14787>>,
       <<"teaspoon", 4929>>, <<"teaspoons", 4929>>, <<"tsp", 4929>>,
       <<"fluid ounce", 29574>>, <<"fluid ounces", 29574>>, <<"fl oz", 29574>>,
       <<"fl. oz.", 29574>>,
       <<"ml", 1000>>, <<"milliliter", 1000>>, <<"milliliters", 1000>>,
       <<"liter", 1000000>>, <<"liters", 1000000>>, <<"l", 1000000>>,
       <<"pint", 473176>>, <<"pints", 473176>>,
       <<"quart", 946353>>, <<"quarts", 946353>>,
       <<"gallon", 3785410>>, <<"gallons", 3785410>> >>

\* the first conversion from position k on that satisfies the test
RECURSIVE FirstConversion(_, _, _)
FirstConversion(unit_name, exact, k) ==
    IF k > Len(conversions) THEN 0
    ELSE IF \/ exact /\ conversions[k][1] = unit_name
            \/ ~exact /\ (\/ StrContains(unit_name, conversions[k][1])
                          \/ StrContains(conversions[k][1], unit_name))
         THEN k
         ELSE FirstConversion(unit_name, exact, k + 1)

_convert_to_ml(amount, unit_name0) ==
    LET unit_name == StrStrip(StrLower(unit_name0))
        exact == FirstConversion(unit_name, TRUE, 1)
        partial == FirstConversion(unit_name, FALSE, 1)
        k == IF exact > 0 THEN exact ELSE partial
    IN  IF k = 0 THEN None
        ELSE Frac(amount.num * conversions[k][2], amount.den * 1000)

\* _calculate_density_from_portion with the confidence of an exact match
_calculate_density_from_portion_scored_one(amount, unit_name, gram_weight, description, fdc_id) ==
    LET volume_ml == _convert_to_ml(amount, unit_name)
        density_g_ml == Frac(gram_weight * volume_ml.den, volume_ml.num)
    IN  IF volume_ml = None THEN None
        ELSE IF volume_ml.num <= 0 THEN None
        ELSE IF FracLess(density_g_ml, Frac(1, 10)) \/ FracLess(Frac(3, 1), density_g_ml)
        THEN None
        ELSE [kind |-> "density", name |-> description,
              category |-> "USDA FoodData Central",
              density_g_ml |-> density_g_ml,
              source |-> "USDA FDC ID: " \o ToString(fdc_id),
              match_score |-> Frac(1, 1),
              search_name |-> StrLower(description)]

\* gram_weight is a whole number of grams
_calculate_density_from_portion(amount, unit_name, gram_weight, description, fdc_id) ==
    LET volume_ml == _convert_to_ml(amount, unit_name)
        density_g_ml == Frac(gram_weight * volume_ml.den, volume_ml.num)
    IN  IF volume_ml = None THEN None
        ELSE IF volume_ml.num <= 0 THEN None
        ELSE IF FracLess(density_g_ml, Frac(1, 10)) \/ FracLess(Frac(3, 1), density_g_ml)
        THEN None
        ELSE [kind |-> "density", name |-> description,
              category |-> "USDA FoodData Central",
              density_g_ml |-> density_g_ml,
              source |-> "USDA FDC ID: " \o ToString(fdc_id),
              match_score |-> Frac(8, 10),
              search_name |-> StrLower(description)]

(***************************************************************************)
(* The FoodData Central service as the model has it: the foods a search    *)
(* for a query lists, and the portions of each food.  Weights are whole    *)
(* grams, 0 for a portion that has none.                                   *)
(***************************************************************************)
USDAFoods(query) ==
    CASE query = "maple syrup" -> <<[fdcId |-> 1, description |-> "Syrups, maple"]>>
      [] query = "puffed rice" -> <<[fdcId |-> 2, description |-> "Rice, puffed"]>>
      [] query = "whipped cream" ->
             <<[fdcId |-> 3, description |-> "Cream, whipped"],
               [fdcId |-> 4, description |-> "Cream, heavy"]>>
      [] query = "tofu" -> <<[fdcId |-> 5, description |-> "Tofu, raw"]>>
      [] OTHER -> <<>>

USDADetails(fdc_id) ==
    CASE fdc_id = 1 ->
             [foodPortions |-> <<[portionDescription |-> "1 serving", gramWeight |-> 60],
                                 [portionDescription |-> "1 tablespoon", gramWeight |-> 20],
                                 [portionDescription |-> "1 cup", gramWeight |-> 315]>>]
      [] fdc_id = 2 ->
             [foodPortions |-> <<[portionDescription |-> "1 cup", gramWeight |-> 14]>>]
      [] fdc_id = 3 ->
             [foodPortions |-> <<[portionDescription |-> "1 cup", gramWeight |-> 20],
                                 [portionDescription |-> "2 Tbsp", gramWeight |-> 15]>>]
      [] fdc_id = 4 ->
             [foodPortions |-> <<[portionDescription |-> "", gramWeight |-> 15],
                                 [portionDescription |-> "1 fl oz", gramWeight |-> 30]>>]
      [] OTHER ->
             [foodPortions |-> <<[portionDescription |-> "1 piece", gramWeight |-> 120],
                                 [portionDescription |-> "0.5 cup", gramWeight |-> 0]>>]

FdcIds == 1..5

\* the names find_density is asked for
LookupNames ==
    {"", "Brown sugar", "sugar", "oats", "popcorn", "kosher salt",
     "maple syrup", "puffed rice", "whipped cream", "tofu"}

\* the foods the service lists for some name
ListedFoods ==
    UNION {{USDAFoods(n)[k] : k \in 1..Len(USDAFoods(n))} : n \in LookupNames}

\* what one GET can bring: the expected body, a RequestException (timeout,
\* connection or HTTP error), or a body that is not the expected object
Outcomes == {"ok", "RequestException", "malformed"}

Returns(value, net) == [kind |-> "return", value |-> value, net |-> net]

Raises(net) == [kind |-> "raise", value |-> "AttributeError", net |-> net]

\* session.get: one more request under the key
Get(net, cache_key) == [net EXCEPT !.gets[cache_key] = @ + 1]

Cached(net, cache_key, value) == [net EXCEPT !.cache = (cache_key :> value) @@ @]

FirstN(seq, n) == SubSeq(seq, 1, IF Len(seq) < n THEN Len(seq) ELSE n)

\* net holds the cache of the USDAFoodAPI and the count of GETs
search_food(net, api_key, query, max_results, outcome) ==
    LET cache_key == "search_" \o query \o "_" \o ToString(max_results)
        foods == FirstN(USDAFoods(query), max_results)
    IN  IF api_key = "" THEN Returns(<<>>, net)
        ELSE IF cache_key \in DOMAIN net.cache THEN Returns(net.cache[cache_key], net)
        ELSE CASE outcome = "ok" -> Returns(foods, Cached(Get(net, cache_key), cache_key, foods))
               [] outcome = "RequestException" -> Returns(<<>>, Get(net, cache_key))
               [] outcome = "malformed" -> Raises(Get(net, cache_key))

get_food_details(net, api_key, fdc_id, outcome) ==
    LET cache_key == "details_" \o ToString(fdc_id)
        details == IF outcome = "ok" THEN USDADetails(fdc_id) ELSE [kind |-> "malformed"]
    IN  IF api_key = "" THEN Returns(None, net)
        ELSE IF cache_key \in DOMAIN net.cache THEN Returns(net.cache[cache_key], net)
        ELSE IF outcome = "RequestException" THEN Returns(None, Get(net, cache_key))
        ELSE Returns(details, Cached(Get(net, cache_key), cache_key, details))

\* the loop over the portions of one food, from portion j
RECURSIVE PortionsLoop(_, _, _, _)
PortionsLoop(portions, j, description, fdc_id) ==
    IF j > Len(portions) THEN None
    ELSE LET portion_description == StrLower(portions[j].portionDescription)
             gram_weight == portions[j].gramWeight
             volume_info == _parse_portion_description(portion_description)
             density_info == _calculate_density_from_portion(
                                 volume_info.amount, volume_info.unit, gram_weight,
                                 description, fdc_id)
         IN  IF gram_weight = 0 \/ portion_description = ""
             THEN PortionsLoop(portions, j + 1, description, fdc_id)
             ELSE IF volume_info = None
             THEN PortionsLoop(portions, j + 1, description, fdc_id)
             ELSE IF density_info = None
             THEN PortionsLoop(portions, j + 1, description, fdc_id)
             ELSE density_info

\* PortionsLoop for the portions of every listed food, computed once
portion_results ==
    [f \in {<<USDADetails(food.fdcId).foodPortions, food.description, food.fdcId>> :
                food \in ListedFoods}
        |-> PortionsLoop(f[1], 1, f[2], f[3])]

\* the loop over the foods of the search, from food k; outcomes gives what
\* the GET for each food brings
RECURSIVE FoodsLoop(_, _, _, _, _)
FoodsLoop(net, api_key, foods, k, outcomes) ==
    IF k > Len(foods) THEN Returns(None, net)
    ELSE LET fdc_id == foods[k].fdcId
             got == get_food_details(net, api_key, fdc_id, outcomes[fdc_id])
             density_info == portion_results[<<got.value.foodPortions,
                                               foods[k].description, fdc_id>>]
         IN  IF fdc_id = 0 THEN FoodsLoop(net, api_key, foods, k + 1, outcomes)
             ELSE IF got.value = None
             THEN FoodsLoop(got.net, api_key, foods, k + 1, outcomes)
             ELSE IF "foodPortions" \notin DOMAIN got.value THEN Raises(got.net)
             ELSE IF density_info = None
             THEN FoodsLoop(got.net, api_key, foods, k + 1, outcomes)
             ELSE Returns(density_info, got.net)

find_density_info(net, api_key, ingredient_name, outcome, outcomes) ==
    LET searched == search_food(net, api_key, ingredient_name, 3, outcome)
    IN  IF ingredient_name = "" THEN Returns(None, net)
        ELSE IF searched.kind = "raise" THEN searched
        ELSE IF searched.value = <<>> THEN Returns(None, searched.net)
        ELSE FoodsLoop(searched.net, api_key, searched.value, 1, outcomes)

(***************************************************************************)
(* Inputs                                                                  *)
(***************************************************************************)
\* quantities k/4 for k up to MaxQuarters
MaxQuarters == 5

\* temperatures from -40 in steps of 12.3 degrees, MaxTempSteps of them
MaxTempSteps == 24

\* hundredths; 202.8 tsp, 67.6 tbsp and 33.8 fl oz are just below one litre
Quantities ==
    {25 * k : k \in 0..MaxQuarters}
    \cup {1, 10, 423, 1500, 1600, 3380, 6000, 6760, 20280, 45400, 200000}

Temperatures ==
    {1230 * k - 4000 : k \in 0..MaxTempSteps}
    \cup {0, 3200, 10000, 17670, 21200, 35000, 37500}

VolumeSpellings == VolumeUnit \cup {"CUP", "ML", "cups", "g"}

WeightSpellings == WeightUnit \cup {"KG", "G", "pound", "ml"}

TemperatureSpellings == {"F", "C", "f", "c", "K", "k"}

IngredientNames ==
    {"flour", "Flour", "all-purpose flour", "dark brown sugar", "oat",
     "egg", "kosher salt", ""}

IngredientUnits ==
    VolumeUnit \cup WeightUnit \cup {"Cup", "piece", ""}

(***************************************************************************)
(* State: one call of the converter.                                       *)
(*   op    the operation that produced res ("start" before the call)       *)
(*   args  the arguments of the call                                       *)
(*   res   what the call returned or raised                                *)
(*   back  for a round trip, the result of converting res back             *)
(***************************************************************************)
VARIABLES op, args, res, back

(***************************************************************************)
(* State: one DensityLookup with its USDAFoodAPI.                          *)
(*   use_usda_api  the constructor's flag: is there a usda_api             *)
(*   api_key       the key of the USDAFoodAPI, "" for none                 *)
(*   usda_cache    DensityLookup.usda_cache, by ingredient name            *)
(*   net           cache: USDAFoodAPI.cache, by cache key;                 *)
(*                 gets: the number of GETs sent, by cache key             *)
(*   queries       the number of calls of find_density_info, by name       *)
(*   asked, found  the name of the last find_density and what it returned  *)
(*   asked_threshold  the threshold of the last find_density               *)
(*   calls         the number of find_density calls so far                 *)
(***************************************************************************)
VARIABLES use_usda_api, api_key, usda_cache, net, queries, asked, found, calls,
          asked_threshold

VARIABLES stage, current_recipe, enriched, given, agent_result, target,
          conversion_cache, converts, settings_processing

convVars == <<fp, op, args, res, back>>

lookupVars ==
    <<use_usda_api, api_key, usda_cache, net, queries, asked, found, calls,
      asked_threshold>>

recipeVars ==
    <<stage, current_recipe, enriched, given, agent_result, target, conversion_cache,
      converts, settings_processing>>

(***************************************************************************)
(* One run of an orchestrator's process_recipe:                            *)
(*   orchestrator   the class whose process_recipe runs                    *)
(*   output_format  the requested format                                   *)
(*   node           the step of the pipeline that runs next                *)
(*   invoked        the agent calls made so far, with their outcomes       *)
(*   state          the RecipeProcessingState of the LangGraph workflow    *)
(*   final_result   the ProcessingResult returned, None before the return  *)
(***************************************************************************)
VARIABLES orchestrator, output_format, node, invoked, state, final_result

(***************************************************************************)
(* One call of BaseLLMClient._retry_with_backoff:                          *)
(*   max_retries, initial_delay  its arguments                             *)
(*   attempt        the loop variable                                      *)
(*   call_count     the number of calls of func so far                     *)
(*   func_outcomes  what each call of func did                             *)
(*   sleeps         the delays passed to time.sleep, in tenths of a second *)
(*   retry          how the call ended, None while it runs                 *)
(***************************************************************************)
VARIABLES max_retries, initial_delay, attempt, call_count, func_outcomes, sleeps,
          retry

pipelineVars == <<orchestrator, output_format, node, invoked, state, final_result>>

retryVars ==
    <<max_retries, initial_delay, attempt, call_count, func_outcomes, sleeps, retry>>

flowVars == <<pipelineVars, retryVars>>

vars == <<convVars, lookupVars, recipeVars, flowVars>>

\* no orchestrator is running
NoPipeline ==
    /\ orchestrator = "" /\ output_format = "" /\ node = ""
    /\ invoked = << >> /\ state = None /\ final_result = None

\* no retry loop is running
NoRetry ==
    /\ max_retries = 0 /\ initial_delay = 0 /\ attempt = 0 /\ call_count = 0
    /\ func_outcomes = << >> /\ sleeps = << >> /\ retry = None

NoFlow == NoPipeline /\ NoRetry

\* no recipe is being processed
NoRecipe ==
    /\ stage = "none" /\ current_recipe = None /\ enriched = 0 /\ given = None
    /\ agent_result = None /\ target = "" /\ conversion_cache = << >>
    /\ converts = 0 /\ settings_processing = [preferred_volume_unit |-> "cup"]

RequestKeys ==
    {"search_" \o n \o "_3" : n \in LookupNames}
    \cup {"details_" \o ToString(i) : i \in FdcIds}

\* a DensityLookup as its constructor leaves it
Constructed ==
    /\ usda_cache = << >>
    /\ net = [cache |-> << >>, gets |-> [k \in RequestKeys |-> 0]]
    /\ queries = [n \in LookupNames |-> 0]
    /\ asked = ""
    /\ asked_threshold = Frac(6, 10)
    /\ found = None
    /\ calls = 0

PairInput(family, quantities, spellings) ==
    \E q \in quantities, f \in spellings, t \in spellings :
        args = [family |-> family, quantity |-> q, from_unit |-> f, to_unit |-> t]

Init ==
    /\ fp \in {"down", "up"}
    /\ op = "start"
    /\ \/ PairInput("volume", Quantities, VolumeSpellings)
       \/ PairInput("weight", Quantities, WeightSpellings)
       \/ PairInput("temperature", Temperatures, TemperatureSpellings)
       \/ \E q \in Quantities \cup {NoQuantity}, u \in IngredientUnits,
             n \in IngredientNames :
             args = [family |-> "ingredient", quantity |-> q, unit |-> u, name |-> n]
    /\ res = NoResult
    /\ back = NoResult
    /\ use_usda_api = FALSE /\ api_key = ""
    /\ Constructed
    /\ NoRecipe
    /\ NoFlow

ConvertVolume ==
    /\ op = "start" /\ args.family = "volume"
    /\ op' = "convert_volume"
    /\ res' = convert_volume(args.quantity, args.from_unit, args.to_unit)
    /\ UNCHANGED <<fp, args, back>>
    /\ UNCHANGED lookupVars
    /\ UNCHANGED recipeVars
    /\ UNCHANGED flowVars

ConvertWeight ==
    /\ op = "start" /\ args.family = "weight"
    /\ op' = "convert_weight"
    /\ res' = convert_weight(args.quantity, args.from_unit, args.to_unit)
    /\ UNCHANGED <<fp, args, back>>
    /\ UNCHANGED lookupVars
    /\ UNCHANGED recipeVars
    /\ UNCHANGED flowVars

ConvertTemperature ==
    /\ op = "start" /\ args.family = "temperature"
    /\ op' = "convert_temperature"
    /\ res' = convert_temperature(args.quantity, args.from_unit, args.to_unit)
    /\ UNCHANGED <<fp, args, back>>
    /\ UNCHANGED lookupVars
    /\ UNCHANGED recipeVars
    /\ UNCHANGED flowVars

\* convert(convert(v, u1, u2).converted_quantity, u2, u1)
RoundTrip ==
    /\ op \in {"convert_volume", "convert_weight", "convert_temperature"}
    /\ res.kind = "ConversionResult"
    /\ op' = "round_trip"
    /\ back' = CASE args.family = "volume" ->
                      convert_volume(res.converted_quantity, args.to_unit, args.from_unit)
                 [] args.family = "weight" ->
                      convert_weight(res.converted_quantity, args.to_unit, args.from_unit)
                 [] args.family = "temperature" ->
                      convert_temperature(res.converted_quantity, args.to_unit,
                                          args.from_unit)
    /\ UNCHANGED <<fp, args, res>>
    /\ UNCHANGED lookupVars
    /\ UNCHANGED recipeVars
    /\ UNCHANGED flowVars

VolumeToWeight ==
    /\ op = "start" /\ args.family = "ingredient" /\ args.quantity # NoQuantity
    /\ op' = "volume_to_weight"
    /\ res' = volume_to_weight(args.quantity, args.unit, args.name)
    /\ UNCHANGED <<fp, args, back>>
    /\ UNCHANGED lookupVars
    /\ UNCHANGED recipeVars
    /\ UNCHANGED flowVars

WeightToVolume ==
    /\ op = "start" /\ args.family = "ingredient" /\ args.quantity # NoQuantity
    /\ op' = "weight_to_volume"
    /\ res' = weight_to_volume(args.quantity, args.unit, args.name)
    /\ UNCHANGED <<fp, args, back>>
    /\ UNCHANGED lookupVars
    /\ UNCHANGED recipeVars
    /\ UNCHANGED flowVars

ConvertToMetric ==
    /\ op = "start" /\ args.family = "ingredient"
    /\ op' = "_convert_to_metric"
    /\ res' = _convert_to_metric(args)
    /\ UNCHANGED <<fp, args, back>>
    /\ UNCHANGED lookupVars
    /\ UNCHANGED recipeVars
    /\ UNCHANGED flowVars

ConvertToImperial ==
    /\ op = "start" /\ args.family = "ingredient"
    /\ op' = "_convert_to_imperial"
    /\ res' = _convert_to_imperial(args)
    /\ UNCHANGED <<fp, args, back>>
    /\ UNCHANGED lookupVars
    /\ UNCHANGED recipeVars
    /\ UNCHANGED flowVars

ConvertToWeight ==
    /\ op = "start" /\ args.family = "ingredient"
    /\ op' = "_convert_to_weight"
    /\ res' = _convert_to_weight(args)
    /\ UNCHANGED <<fp, args, back>>
    /\ UNCHANGED lookupVars
    /\ UNCHANGED recipeVars
    /\ UNCHANGED flowVars

Next ==
    \/ ConvertVolume
    \/ ConvertWeight
    \/ ConvertTemperature
    \/ RoundTrip
    \/ VolumeToWeight
    \/ WeightToVolume
    \/ ConvertToMetric
    \/ ConvertToImperial
    \/ ConvertToWeight

Spec == Init /\ [][Next]_vars

(***************************************************************************)
(* DensityLookup.find_density on the table the lookup was built from       *)
(***************************************************************************)
\* the rows of the densities file
DensitiesFile ==
    << [name |-> "Salt, table", density |-> "1.2",
        category |-> "Miscellaneous", biblio |-> "b1"],
       [name |-> "Oats, rolled (dry)", density |-> "0.35-0.43",
        category |-> "Cereals", biblio |-> "b2"],
       [name |-> "Brown sugar", density |-> "0.72",
        category |-> "Sugars", biblio |-> "b3"],
       [name |-> "Honey, pure", density |-> "1.42",
        category |-> "Sugars", biblio |-> "b4"],
       [name |-> "Popcorn, popped", density |-> "0.03",
        category |-> "Snacks", biblio |-> "b5"],
       [name |-> "Yeast extract", density |-> "n.a.",
        category |-> "Miscellaneous", biblio |-> "b6"],
       [name |-> "Sugar, granulated", density |-> "0.85",
        category |-> "Sugars", biblio |-> "b7"] >>

densities_df == _load_densities(DensitiesFile)

search_index == _build_search_index(densities_df)

\* the default of find_density's threshold argument
DefaultThreshold == Frac(6, 10)

Thresholds == {DefaultThreshold, Frac(9, 10)}

\* _find_density_local for every name and threshold, computed once
local_results ==
    [n \in LookupNames, t \in Thresholds |->
        _find_density_local(densities_df, search_index, n, t)]

\* the most find_density calls taken on one DensityLookup
MaxCalls == 3

\* what _find_density_usda returns and the state it leaves
Answer(value, cached, sent, asked_usda) ==
    [value |-> value, usda_cache |-> cached, net |-> sent, queries |-> asked_usda]

Unchanged(value) == Answer(value, usda_cache, net, queries)

\* _find_density_usda once find_density_info has returned or raised
Queried(ingredient_name, density_info) ==
    IF density_info.kind = "raise"
    THEN Answer(None, usda_cache, density_info.net,
                [queries EXCEPT ![ingredient_name] = @ + 1])
    ELSE Answer(density_info.value,
                (ingredient_name :> density_info.value) @@ usda_cache,
                density_info.net,
                [queries EXCEPT ![ingredient_name] = @ + 1])

_find_density_usda(ingredient_name, outcome, outcomes) ==
    IF ingredient_name \in DOMAIN usda_cache
    THEN Unchanged(usda_cache[ingredient_name])
    ELSE Queried(ingredient_name,
                 find_density_info(net, api_key, ingredient_name, outcome, outcomes))

\* find_density once the local strategies have given local_result
AfterLocal(local_result, ingredient_name, outcome, outcomes) ==
    IF local_result # None THEN Unchanged(local_result)
    ELSE IF use_usda_api THEN _find_density_usda(ingredient_name, outcome, outcomes)
    ELSE Unchanged(None)

find_density(ingredient_name, threshold, outcome, outcomes) ==
    IF ingredient_name = "" THEN Unchanged(None)
    ELSE AfterLocal(local_results[ingredient_name, threshold],
                    ingredient_name, outcome, outcomes)

\* the identifiers of the foods the service lists for a query
FdcIdsOf(query) == {USDAFoods(query)[k].fdcId : k \in 1..Len(USDAFoods(query))}

InitLookup ==
    /\ fp = "down" /\ op = "start" /\ args = [family |-> "none"]
    /\ res = NoResult /\ back = NoResult
    /\ use_usda_api \in BOOLEAN
    /\ api_key \in {"", "key"}
    /\ Constructed
    /\ NoRecipe
    /\ NoFlow

\* the state a call of find_density leaves
Leaves(ingredient_name, answer) ==
    /\ asked' = ingredient_name
    /\ found' = answer.value
    /\ usda_cache' = answer.usda_cache
    /\ net' = answer.net
    /\ queries' = answer.queries

FindDensity ==
    /\ calls < MaxCalls
    /\ \E ingredient_name \in LookupNames, threshold \in Thresholds,
          outcome \in Outcomes :
          \E outcomes \in [FdcIdsOf(ingredient_name) -> Outcomes] :
              /\ Leaves(ingredient_name,
                        find_density(ingredient_name, threshold, outcome, outcomes))
              /\ asked_threshold' = threshold
    /\ calls' = calls + 1
    /\ UNCHANGED <<use_usda_api, api_key>>
    /\ UNCHANGED convVars
    /\ UNCHANGED recipeVars
    /\ UNCHANGED flowVars

NextLookup == FindDensity

SpecLookup == InitLookup /\ [][NextLookup]_vars


(***************************************************************************)
(* Binary doubles.  The quality score of the normalizer is a sum of        *)
(* doubles, so it is computed here as the source computes it: every        *)
(* addition, product and division is rounded to 53 significant bits, ties  *)
(* to even.  A double is held as the natural number of its units of        *)
(* 2^-64, which is exact for every double from 2^-12 up to 16.             *)
(***************************************************************************)
RECURSIVE BigPow2(_)
BigPow2(j) == IF j <= 20 THEN Big(2 ^ j) ELSE BigMulSmall(BigPow2(j - 20), 2 ^ 20)

RECURSIVE Trim(_)
Trim(a) ==
    IF a = <<>> THEN a
    ELSE IF a[Len(a)] = 0 THEN Trim(SubSeq(a, 1, Len(a) - 1))
    ELSE a

RECURSIVE DivSmallFrom(_, _, _, _)
DivSmallFrom(a, m, i, r) ==
    IF i = 0 THEN <<>>
    ELSE LET t == r * 1000 + a[i]
         IN  DivSmallFrom(a, m, i - 1, t % m) \o <<t \div m>>

\* floor(a / m) for a natural 0 < m <= 2^20
BigDivSmall(a, m) == Trim(DivSmallFrom(a, m, Len(a), 0))

RECURSIVE ShiftRight(_, _)
ShiftRight(a, bits) ==
    IF bits = 0 THEN a
    ELSE IF bits <= 20 THEN BigDivSmall(a, 2 ^ bits)
    ELSE ShiftRight(BigDivSmall(a, 2 ^ 20), bits - 20)

\* the largest j in 0..top with 2^j * b <= x, 0 when there is none
RECURSIVE Binade(_, _, _)
Binade(x, b, top) ==
    IF top = 0 THEN 0
    ELSE IF BigCmp(BigMulSmall(b, 2 ^ top), x) <= 0 THEN top
    ELSE Binade(x, b, top - 1)

\* q, or q + 1 when x is above the middle of q and q + 1 or on it with q odd;
\* c compares x with that middle
Nearest(q, c) ==
    IF c > 0 \/ (c = 0 /\ Head(q) % 2 = 1) THEN BigAdd(q, Big(1)) ELSE q

\* the 53 bits q of the quotient, rounded, in units of 2^j
RoundedAt(x, d, shift, j, q) ==
    BigMulSmall(Nearest(q, BigCmp(BigMulSmall(x, 2),
                                  BigMul(BigMulSmall(BigPow2(shift + j), d),
                                         BigAdd(BigMulSmall(q, 2), Big(1))))),
                2 ^ j)

\* the quotient lies in the binade whose doubles are the multiples of 2^j
InBinade(x, d, shift, j) ==
    RoundedAt(x, d, shift, j, ShiftRight(BigDivSmall(x, d), shift + j))

\* the double nearest to x / (d * 2^shift) units, ties to even
FRound(x, d, shift) ==
    IF x = <<>> THEN x
    ELSE InBinade(x, d, shift,
                  Binade(x, BigMulSmall(BigPow2(52 + shift), d), 15))

\* the double of the decimal literal n / d
FLiteral(n, d) == FRound(BigMulSmall(BigPow2(64), n), d, 0)

FAdd(x, y) == FRound(BigAdd(x, y), 1, 0)

FMul(x, y) == FRound(BigMul(x, y), 1, 64)

\* x / n for a positive int n
FDivInt(x, n) == FRound(x, n, 0)

FMin(x, y) == IF BigCmp(y, x) < 0 THEN y ELSE x

(***************************************************************************)
(* src/agents/normalizer.py: NormalizerAgent.  Text is ASCII with the      *)
(* space as its only whitespace, so the replacements of mis-encoded quotes *)
(* in _clean_text leave it unchanged and the verb "saut\'e" of the verb    *)
(* list matches nowhere.  None and the empty string are both the empty     *)
(* string.                                                                 *)
(***************************************************************************)
\* <[^>]+> at position i: the length matched, 0 for no match
MatchTagAt(s, i) ==
    LET close == FindChar(s, ">", i + 1)
    IN  IF i <= Len(s) /\ Char(s, i) = "<" /\ close >= i + 2
        THEN close - i + 1 ELSE 0

\* \([^)]*brand[^)]*\) at position i, ignoring case
MatchBrandAt(s, i) ==
    LET close == FindChar(s, ")", i + 1)
    IN  IF /\ i <= Len(s) /\ Char(s, i) = "(" /\ close > 0
           /\ StrContains(StrLower(SubSeq(s, i + 1, close - 1)), "brand")
        THEN close - i + 1 ELSE 0

\* \bword(?:s1|s2|...)?\b at position i, ignoring case; suffixes ends with ""
RECURSIVE MatchStemAt(_, _, _, _, _)
MatchStemAt(s, i, word, suffixes, k) ==
    IF k > Len(suffixes) \/ ~BoundaryBefore(s, i) \/ i > Len(s) THEN 0
    ELSE LET w == word \o suffixes[k]
         IN  IF /\ i + Len(w) - 1 <= Len(s)
                /\ StrLower(SubSeq(s, i, i + Len(w) - 1)) = w
                /\ ~IsWordAt(s, i + Len(w))
             THEN Len(w)
             ELSE MatchStemAt(s, i, word, suffixes, k + 1)

\* \b&\b at position i
MatchAmpersandAt(s, i) ==
    IF /\ i <= Len(s) /\ Char(s, i) = "&"
       /\ IsWordAt(s, i - 1) /\ IsWordAt(s, i + 1)
    THEN 1 ELSE 0

NormalizerMatchAt(pattern, s, i) ==
    CASE pattern.kind = "tag" -> MatchTagAt(s, i)
      [] pattern.kind = "brand" -> MatchBrandAt(s, i)
      [] pattern.kind = "stem" -> MatchStemAt(s, i, pattern.word, pattern.suffixes, 1)
      [] pattern.kind = "ampersand" -> MatchAmpersandAt(s, i)
      [] OTHER -> MatchAt(pattern, s, i)

\* re.sub(pattern, repl, s) of the normalizer, scanning from position i
RECURSIVE NormalizerSubFrom(_, _, _, _)
NormalizerSubFrom(pattern, repl, s, i) ==
    IF i > Len(s) THEN ""
    ELSE LET m == NormalizerMatchAt(pattern, s, i)
         IN  IF m > 0 THEN repl \o NormalizerSubFrom(pattern, repl, s, i + m)
             ELSE Char(s, i) \o NormalizerSubFrom(pattern, repl, s, i + 1)

NormalizerSub(pattern, repl, s) == NormalizerSubFrom(pattern, repl, s, 1)

_clean_text(text) ==
    IF text = "" THEN text
    ELSE StrStrip(NormalizerSub([kind |-> "tag"], "",
                      NormalizerSub([kind |-> "spaces"], " ", StrStrip(text))))

\* the keys and values of common_ingredient_names
common_ingredient_names ==
    << <<"green onions", "scallions">>, <<"spring onions", "scallions">>,
       <<"roma tomatoes", "plum tomatoes">>, <<"bell peppers", "bell pepper">>,
       <<"sweet peppers", "bell pepper">>, <<"ground beef", "ground beef">>,
       <<"hamburger", "ground beef">>, <<"chicken breast", "chicken breast">>,
       <<"boneless chicken breast", "chicken breast">>,
       <<"heavy cream", "heavy cream">>, <<"heavy whipping cream", "heavy cream">>,
       <<"half and half", "half-and-half">>, <<"kosher salt", "salt">>,
       <<"table salt", "salt">>, <<"sea salt", "salt">>,
       <<"black pepper", "black pepper">>, <<"ground black pepper", "black pepper">>,
       <<"vegetable oil", "vegetable oil">>, <<"canola oil", "vegetable oil">>,
       <<"olive oil", "olive oil">>, <<"extra virgin olive oil", "olive oil">>,
       <<"all-purpose flour", "all-purpose flour">>,
       <<"plain flour", "all-purpose flour">>, <<"white rice", "white rice">>,
       <<"long-grain white rice", "white rice">> >>

\* dict.get(key, default) on a sequence of <<key, value>> pairs
RECURSIVE DictGet(_, _, _, _)
DictGet(pairs, key, default, k) ==
    IF k > Len(pairs) THEN default
    ELSE IF pairs[k][1] = key THEN pairs[k][2]
    ELSE DictGet(pairs, key, default, k + 1)

DictHas(pairs, key) == \E k \in 1..Len(pairs) : pairs[k][1] = key

EndsWith(s, t) == Len(s) >= Len(t) /\ SubSeq(s, Len(s) - Len(t) + 1, Len(s)) = t

Normalizer_normalize_ingredient_name(name) ==
    IF name = "" THEN name
    ELSE LET cleaned0 == StrLower(_clean_text(name))
             cleaned ==
                 NormalizerSub([kind |-> "words",
                                words |-> <<"fresh", "dried", "organic",
                                            "free-range", "grass-fed">>], "",
                     NormalizerSub([kind |-> "brand"], "", cleaned0))
             es == SubSeq(cleaned, 1, Len(cleaned) - 2)
             s == SubSeq(cleaned, 1, Len(cleaned) - 1)
         IN  IF DictHas(common_ingredient_names, cleaned0)
             THEN DictGet(common_ingredient_names, cleaned0, "", 1)
             ELSE IF EndsWith(cleaned, "es")
             THEN IF DictHas(common_ingredient_names, es)
                  THEN DictGet(common_ingredient_names, es, "", 1)
                  ELSE StrStrip(cleaned)
             ELSE IF EndsWith(cleaned, "s") /\ ~EndsWith(cleaned, "ss")
                     /\ DictHas(common_ingredient_names, s)
             THEN DictGet(common_ingredient_names, s, "", 1)
             ELSE StrStrip(cleaned)

unit_mappings ==
    << <<"cups", "cup">>, <<"c", "cup">>, <<"tablespoons", "tbsp">>,
       <<"tablespoon", "tbsp">>, <<"T", "tbsp">>, <<"teaspoons", "tsp">>,
       <<"teaspoon", "tsp">>, <<"t", "tsp">>, <<"pounds", "lb">>,
       <<"pound", "lb">>, <<"lbs", "lb">>, <<"ounces", "oz">>,
       <<"ounce", "oz">>, <<"fluid ounces", "fl oz">>,
       <<"fluid ounce", "fl oz">>, <<"pints", "pint">>, <<"quarts", "quart">>,
       <<"gallons", "gallon">>, <<"liters", "l">>, <<"liter", "l">>,
       <<"milliliters", "ml">>, <<"milliliter", "ml">>, <<"grams", "g">>,
       <<"gram", "g">>, <<"kilograms", "kg">>, <<"kilogram", "kg">> >>

_normalize_unit(unit0) ==
    IF unit0 = "" THEN unit0
    ELSE LET unit == StrStrip(StrLower(unit0))
         IN  DictGet(unit_mappings, unit, unit, 1)

cooking_verbs ==
    << "heat", "cook", "boil", "simmer", "fry", "bake", "roast", "grill",
       "steam", "poach", "braise", "stew", "mix", "stir", "whisk", "beat", "fold",
       "chop", "dice", "slice", "mince", "julienne", "grate", "shred", "peel",
       "season", "marinate", "chill", "freeze", "thaw", "serve", "garnish" >>

Stem(word) ==
    [kind |-> "stem", word |-> word, suffixes |-> <<"ing", "ed", "s", "">>]

\* one re.sub for each verb, each applied to the result of the one before
RECURSIVE NormalizeVerbs(_, _)
NormalizeVerbs(cleaned, k) ==
    IF k > Len(cooking_verbs) THEN cleaned
    ELSE CHOOSE normalized \in
             {NormalizeVerbs(substituted, k + 1) :
                  substituted \in {NormalizerSub(Stem(cooking_verbs[k]),
                                                 cooking_verbs[k], cleaned)}} : TRUE

Word(word) == [kind |-> "stem", word |-> word, suffixes |-> <<"">>]

_clean_instruction_text(text) ==
    IF text = "" THEN text
    ELSE NormalizerSub([kind |-> "ampersand"], "and",
             NormalizerSub(Word("thru"), "through",
                 NormalizerSub(Word("til"), "until",
                     NormalizeVerbs(_clean_text(text), 1))))

(***************************************************************************)
(* models/recipe.py: the fields of Ingredient, InstructionStep and Recipe  *)
(* that the normalizer, the parser's enrichment and the converter read or  *)
(* write.  Quantities and temperatures are hundredths, NoQuantity for     *)
(* None; times and servings are integers, NoQuantity for None; an absent   *)
(* string or enum is "".                                                   *)
(***************************************************************************)
Ingredient(name, quantity, unit) ==
    [name |-> name, quantity |-> quantity, unit |-> unit,
     preparation |-> "", notes |-> "", confidence |-> NoQuantity,
     metric_quantity |-> NoQuantity, metric_unit |-> "",
     imperial_quantity |-> NoQuantity, imperial_unit |-> "",
     weight_quantity |-> NoQuantity, weight_unit |-> ""]

InstructionStep(instruction, time_minutes, temperature, temperature_unit, equipment) ==
    [instruction |-> instruction, time_minutes |-> time_minutes,
     temperature |-> temperature, temperature_unit |-> temperature_unit,
     equipment |-> equipment, techniques |-> <<>>]

\* no confidence_score yet
NoScore == <<1000>>

\* the validator of total_time: prep_time + cook_time when it is not given
calculate_total_time(v, prep_time, cook_time) ==
    LET prep == IF prep_time = NoQuantity THEN 0 ELSE prep_time
        cook == IF cook_time = NoQuantity THEN 0 ELSE cook_time
    IN  IF v # NoQuantity THEN v
        ELSE IF prep # 0 \/ cook # 0 THEN prep + cook ELSE NoQuantity

\* Python's truth value of an Optional[int]
Truthy(n) == n # NoQuantity /\ n # 0

F0_1 == FLiteral(1, 10)

F0_2 == FLiteral(2, 10)

F0_3 == FLiteral(3, 10)

F0_5 == FLiteral(5, 10)

F0_7 == FLiteral(7, 10)

F1_0 == FLiteral(1, 1)

F0_0 == Big(0)

\* score += amount, under the condition of the source's if
Plus(score, condition, amount) == IF condition THEN FAdd(score, amount) ELSE score

\* the loop over recipe.ingredients; the sets make each pass of the loop a
\* value before the next begins
RECURSIVE IngredientScore(_, _, _)
IngredientScore(ingredients, i, ingredient_score) ==
    IF i > Len(ingredients) THEN ingredient_score
    ELSE CHOOSE total \in
             {IngredientScore(ingredients, i + 1, added) :
                  added \in {Plus(Plus(Plus(ingredient_score,
                                            Len(ingredients[i].name) > 2, F0_5),
                                       ingredients[i].quantity # NoQuantity, F0_3),
                                  ingredients[i].unit # "", F0_2)}} : TRUE

\* the loop over recipe.instructions
RECURSIVE InstructionScore(_, _, _)
InstructionScore(instructions, i, instruction_score) ==
    IF i > Len(instructions) THEN instruction_score
    ELSE CHOOSE total \in
             {InstructionScore(instructions, i + 1, added) :
                  added \in {Plus(Plus(Plus(instruction_score,
                                            Len(instructions[i].instruction) > 10,
                                            F0_7),
                                       Truthy(instructions[i].time_minutes), F0_2),
                                  instructions[i].equipment # <<>>, F0_1)}} : TRUE

\* the five metadata tests, in the order of the source
MetadataScore(recipe) ==
    Plus(Plus(Plus(Plus(Plus(F0_0, Truthy(recipe.prep_time), F0_2),
                        Truthy(recipe.cook_time), F0_2),
                   Truthy(recipe.servings), F0_2),
              recipe.difficulty # "", F0_2),
         recipe.cuisine # "", F0_2)

\* min(ingredient_score / len(recipe.ingredients), 1.0) * 0.3
IngredientPart(recipe) ==
    FMul(FMin(FDivInt(IngredientScore(recipe.ingredients, 1, F0_0),
                      Len(recipe.ingredients)), F1_0), F0_3)

\* min(instruction_score / len(recipe.instructions), 1.0) * 0.3
InstructionPart(recipe) ==
    FMul(FMin(FDivInt(InstructionScore(recipe.instructions, 1, F0_0),
                      Len(recipe.instructions)), F1_0), F0_3)

_calculate_quality_score(recipe) ==
    FMin(FAdd(Plus(Plus(Plus(Plus(F0_0, Len(recipe.title) > 5, F0_1),
                             Len(recipe.description) > 20, F0_1),
                        recipe.ingredients # <<>>, IngredientPart(recipe)),
                   recipe.instructions # <<>>, InstructionPart(recipe)),
              FMul(MetadataScore(recipe), F0_2)),
         F1_0)

(***************************************************************************)
(* agents/parser.py: the density enrichment of one parsed ingredient       *)
(***************************************************************************)
volume_units ==
    {"ml", "l", "cup", "cups", "tbsp", "tsp", "fl oz", "pint", "quart", "gallon",
     "milliliter", "milliliters", "liter", "liters", "litre", "litres",
     "tablespoon", "tablespoons", "teaspoon", "teaspoons",
     "fluid ounce", "fluid ounces"}

_is_volume_unit(unit) == StrLower(StrStrip(unit)) \in volume_units

weight_units ==
    {"g", "kg", "oz", "lb", "gram", "grams", "kilogram", "kilograms",
     "ounce", "ounces", "pound", "pounds"}

_is_weight_unit(unit) == StrLower(StrStrip(unit)) \in weight_units

\* the conversions dictionary of convert_volume_units_to_ml, in thousandths
\* of a millilitre; 0 for a unit that is not a key
MillilitreThousandths(unit) ==
    CASE unit \in {"ml", "milliliter", "milliliters"} -> 1000
      [] unit \in {"l", "liter", "liters", "litre", "litres"} -> 1000000
      [] unit \in {"cup", "cups"} -> 236588
      [] unit \in {"tbsp", "tablespoon", "tablespoons"} -> 14787
      [] unit \in {"tsp", "teaspoon", "teaspoons"} -> 4929
      [] unit \in {"fl oz", "fluid ounce", "fluid ounces"} -> 29574
      [] unit \in {"pint", "pints"} -> 473176
      [] unit \in {"quart", "quarts"} -> 946353
      [] unit \in {"gallon", "gallons"} -> 3785410
      [] OTHER -> 0

\* a rational, or None
convert_volume_units_to_ml(quantity, unit0) ==
    LET unit == StrLower(StrStrip(unit0))
    IN  IF MillilitreThousandths(unit) = 0 THEN None
        ELSE RatMul(Rat(MillilitreThousandths(unit), 1000), RatOfQty(quantity))

\* the conversions dictionary of _convert_weight_to_grams, in ten-thousandths
\* of a gram; 0 for a unit that is not a key
GramTenThousandths(unit) ==
    CASE unit \in {"g", "gram", "grams"} -> 10000
      [] unit \in {"kg", "kilogram", "kilograms"} -> 10000000
      [] unit \in {"oz", "ounce", "ounces"} -> 283495
      [] unit \in {"lb", "pound", "pounds"} -> 4535920
      [] OTHER -> 0

_convert_weight_to_grams(quantity, unit0) ==
    LET unit == StrLower(StrStrip(unit0))
    IN  IF GramTenThousandths(unit) = 0 THEN None
        ELSE RatMul(Rat(GramTenThousandths(unit), 10000), RatOfQty(quantity))

calculate_weight_from_volume(volume_ml, density_g_ml) ==
    RatMul(volume_ml, Rat(density_g_ml.num, density_g_ml.den))

calculate_volume_from_weight(weight_g, density_g_ml) ==
    RatDiv(weight_g, Rat(density_g_ml.num, density_g_ml.den))

IsZero(r) == r.n = <<>>

\* the assignments without the choice of the larger unit
WithMetricAndWeight_unbucketed(ingredient, volume_ml, weight_g) ==
    [ingredient EXCEPT
       !.metric_quantity = smart_round(volume_ml, "ml"),
       !.metric_unit = "ml",
       !.weight_quantity = smart_round(weight_g, "g"),
       !.weight_unit = "g"]

\* the four assignments both branches make from volume_ml and weight_g
WithMetricAndWeight(ingredient, volume_ml, weight_g) ==
    LET litres == ~RatLess(volume_ml, Rat(1000, 1))
        kilograms == ~RatLess(weight_g, Rat(1000, 1))
    IN  [ingredient EXCEPT
           !.metric_quantity = IF litres THEN smart_round(RatScale(volume_ml, 1, 1000), "l")
                               ELSE smart_round(volume_ml, "ml"),
           !.metric_unit = IF litres THEN "l" ELSE "ml",
           !.weight_quantity = IF kilograms THEN smart_round(RatScale(weight_g, 1, 1000), "kg")
                               ELSE smart_round(weight_g, "g"),
           !.weight_unit = IF kilograms THEN "kg" ELSE "g"]

\* the volume branch once convert_volume_units_to_ml has returned
VolumeBranch(ingredient, volume_ml, density_g_ml) ==
    IF volume_ml = None \/ IsZero(volume_ml) THEN ingredient
    ELSE WithMetricAndWeight(ingredient, volume_ml,
                             calculate_weight_from_volume(volume_ml, density_g_ml))

\* the weight branch once _convert_weight_to_grams has returned
WeightBranch(ingredient, weight_g, density_g_ml) ==
    IF weight_g = None \/ IsZero(weight_g) THEN ingredient
    ELSE WithMetricAndWeight(ingredient,
                             calculate_volume_from_weight(weight_g, density_g_ml),
                             weight_g)

\* the enrichment that takes the quantity of any other unit for grams
_enhance_ingredient_with_density_counted(ingredient, density_info) ==
    IF ingredient.name = "" \/ Falsy(ingredient.quantity) THEN ingredient
    ELSE IF density_info = None THEN ingredient
    ELSE IF ingredient.unit # "" /\ _is_volume_unit(ingredient.unit)
    THEN VolumeBranch(ingredient,
                      convert_volume_units_to_ml(ingredient.quantity, ingredient.unit),
                      density_info.density_g_ml)
    ELSE WeightBranch(ingredient, RatOfQty(ingredient.quantity),
                      density_info.density_g_ml)

\* density_info is what density_lookup.find_density(ingredient.name) returned
_enhance_ingredient_with_density(ingredient, density_info) ==
    IF ingredient.name = "" \/ Falsy(ingredient.quantity) THEN ingredient
    ELSE IF density_info = None THEN ingredient
    ELSE IF ingredient.unit # "" /\ _is_volume_unit(ingredient.unit)
    THEN VolumeBranch(ingredient,
                      convert_volume_units_to_ml(ingredient.quantity, ingredient.unit),
                      density_info.density_g_ml)
    ELSE IF ingredient.unit # "" /\ _is_weight_unit(ingredient.unit)
    THEN WeightBranch(ingredient,
                      _convert_weight_to_grams(ingredient.quantity, ingredient.unit),
                      density_info.density_g_ml)
    ELSE ingredient

(***************************************************************************)
(* Recipe: the fields the agents read or write                             *)
(***************************************************************************)
Recipe(title, description, ingredients, instructions, prep_time, cook_time, total_time, servings, difficulty, cuisine) ==
    [title |-> title, description |-> description,
     ingredients |-> ingredients, instructions |-> instructions,
     prep_time |-> prep_time, cook_time |-> cook_time,
     total_time |-> calculate_total_time(total_time, prep_time, cook_time),
     servings |-> servings, difficulty |-> difficulty, cuisine |-> cuisine,
     processing_notes |-> <<>>, confidence_score |-> NoScore]

add_processing_note(recipe, note) ==
    [recipe EXCEPT !.processing_notes = Append(@, note)]

(***************************************************************************)
(* Inputs: the recipes the parser hands on                                 *)
(***************************************************************************)
\* with the confidence _calculate_ingredient_confidence gave, in hundredths
Confident(ingredient, confidence) == [ingredient EXCEPT !.confidence = confidence]

\* the ingredient lists, as the parser constructs them before the enrichment
IngredientLists ==
    { <<>>,
      <<Ingredient("sugar", 200, "cups")>>,
      <<Ingredient("sugar", 500, "cup")>>,
      <<Ingredient("Brown sugar", 150000, "g")>>,
      <<Confident(Ingredient("kosher salt", 50, "kg"), 50)>>,
      <<Ingredient("sugar", 300, "lb")>>,
      <<Ingredient("sugar", 800, "oz")>>,
      <<Ingredient("sugar", 100, "pint")>>,
      <<Ingredient("oats", 25000, "ml")>>,
      <<Ingredient("popcorn", 200, "clove")>>,
      <<Ingredient("tofu", 200, "piece"), Ingredient("sugar", 200, "cup")>>,
      <<Ingredient("maple syrup", 25, "tbsp"), Ingredient("sugar", 200, "cup")>>,
      <<Ingredient("popcorn", NoQuantity, ""), Ingredient("sugar", 200, "cup")>>,
      <<Ingredient("sugar", 200, "cup"), Ingredient("sugar", 300, "lb"),
        Ingredient("sugar", 200, "cup")>>,
      <<Ingredient("tofu", 300, ""), Ingredient("oats", 0, "cup")>> }

\* a recipe with nothing but its ingredients
Bare(ingredients) ==
    Recipe("", "", ingredients, <<>>, NoQuantity, NoQuantity, NoQuantity,
           NoQuantity, "", "")

\* a recipe with every field the quality score reads
Full(ingredients) ==
    Recipe("Sugar  Cookies ", "Crisp &amp; sweet cookies for tea.", ingredients,
           << InstructionStep("Mixing the sugar in a bowl.", 5, NoQuantity, "F",
                              <<"bowl">>),
              InstructionStep("Bake for ten minutes.", 10, 35000, "F",
                              <<"oven">>) >>,
           10, 10, NoQuantity, 4, "easy", "american")

\* a recipe with some of them
Partial(ingredients) ==
    Recipe("Soup  ", "", ingredients,
           << InstructionStep("Bake it", NoQuantity, 18000, "C", <<>>) >>,
           NoQuantity, 30, NoQuantity, 0, "", "other")

\* a recipe with every field and ten steps
Long(ingredients) ==
    Recipe("Sugar syrup", "Sugar boiled down to a syrup.", ingredients,
           [k \in 1..10 |->
               InstructionStep("Stir the pot well.", 5, NoQuantity, "F", <<"pot">>)],
           10, 50, NoQuantity, 4, "easy", "american")

ParsedRecipes ==
    {Bare(l) : l \in IngredientLists} \cup {Full(l) : l \in IngredientLists}
    \cup {Partial(l) : l \in IngredientLists}
    \cup {Long(<<Ingredient("sugar", 200, "cup")>>)}

\* the target systems convert is called with
TargetSystems == {"metric", "imperial", "weight", "preferred", "us"}

\* the most convert calls taken on one ConverterAgent
MaxConverts == 2

(***************************************************************************)
(* The text functions of the normalizer on the texts of these recipes,     *)
(* each computed once: @@ makes the function a table of its values.        *)
(***************************************************************************)
RecipeTexts ==
    UNION {{r.title, r.description} : r \in ParsedRecipes}

InstructionTexts ==
    UNION {{r.instructions[k].instruction : k \in 1..Len(r.instructions)} :
              r \in ParsedRecipes}

ParsedIngredients ==
    UNION {{l[k] : k \in 1..Len(l)} : l \in IngredientLists}

clean_text == [text \in RecipeTexts |-> _clean_text(text)] @@ << >>

clean_instruction_text ==
    [text \in InstructionTexts |-> _clean_instruction_text(text)] @@ << >>

normalize_ingredient_name ==
    [name \in {i.name : i \in ParsedIngredients} |->
        Normalizer_normalize_ingredient_name(name)] @@ << >>

normalize_unit ==
    [unit \in {i.unit : i \in ParsedIngredients} |-> _normalize_unit(unit)]
    @@ << >>

(***************************************************************************)
(* agents/base.py: AgentResult                                             *)
(***************************************************************************)
AgentResult(success, data, metadata) ==
    [success |-> success, data |-> data, metadata |-> metadata]

\* _handle_error: no data, the error text is not kept
_handle_error(context) ==
    [success |-> FALSE, data |-> None, metadata |-> [error |-> context]]

(***************************************************************************)
(* config/settings.py: ProcessingSettings                                  *)
(***************************************************************************)
enable_ingredient_normalization == TRUE

enable_instruction_enhancement == TRUE

(***************************************************************************)
(* The replies of the language model.  generate() raises, or returns text  *)
(* that json.loads rejects (LLMFailure), or returns a JSON object; Missing *)
(* is a key the object does not have, "" is null.                          *)
(***************************************************************************)
LLMFailure == [kind |-> "raise"]

Missing == "<missing>"

IngredientReplies ==
    {LLMFailure,
     [kind |-> "json", name |-> "sea salt", preparation |-> "", notes |-> "coarse"],
     [kind |-> "json", name |-> Missing, preparation |-> Missing, notes |-> ""]}

InstructionReplies ==
    {LLMFailure,
     [kind |-> "json", instruction |-> "Bake until golden.",
      estimated_time_minutes |-> 25, key_techniques |-> <<"bake">>],
     [kind |-> "json", instruction |-> Missing,
      estimated_time_minutes |-> 0, key_techniques |-> <<>>]}

\* dict.get(key, default)
GetOr(value, default) == IF value = Missing THEN default ELSE value

(***************************************************************************)
(* agents/normalizer.py: NormalizerAgent on a whole recipe                 *)
(***************************************************************************)
_normalize_servings(servings) ==
    IF servings = NoQuantity THEN NoQuantity
    ELSE IF servings < 1 THEN 1
    ELSE IF servings > 100 THEN 100
    ELSE servings

Abs(n) == IF n < 0 THEN 0 - n ELSE n

_validate_timing(recipe) ==
    IF Truthy(recipe.prep_time) /\ Truthy(recipe.cook_time)
    THEN LET calculated_total == recipe.prep_time + recipe.cook_time
         IN  IF \/ ~Truthy(recipe.total_time)
                \/ Abs(recipe.total_time - calculated_total) > 5
             THEN add_processing_note([recipe EXCEPT !.total_time = calculated_total],
                                      "Total time recalculated")
             ELSE recipe
    ELSE recipe

_needs_llm_normalization(ingredient) ==
    \/ Truthy(ingredient.confidence) /\ ingredient.confidence < 80
    \/ ingredient.preparation # "" /\ Len(ingredient.preparation) > 50
    \/ Len(StrSplit(ingredient.name)) > 4

_needs_instruction_enhancement(instruction) ==
    \/ Len(instruction.instruction) > 200
    \/ /\ ~Truthy(instruction.time_minutes)
       /\ \E word \in {"cook", "bake", "simmer", "boil"} :
              StrContains(StrLower(instruction.instruction), word)

\* the enhanced ingredient, or None
_enhance_ingredient_with_llm(ingredient, response) ==
    IF response.kind = "raise" THEN None
    ELSE [ingredient EXCEPT
            !.name = GetOr(response.name, ingredient.name),
            !.preparation = GetOr(response.preparation, ingredient.preparation),
            !.notes = IF response.notes \notin {"", Missing}
                      THEN response.notes ELSE ingredient.notes]

\* the enhanced instruction, or None
_enhance_instruction_with_llm(instruction, response) ==
    IF response.kind = "raise" THEN None
    ELSE [instruction EXCEPT
            !.instruction = GetOr(response.instruction, instruction.instruction),
            !.time_minutes = IF Truthy(response.estimated_time_minutes)
                             THEN response.estimated_time_minutes
                             ELSE instruction.time_minutes,
            !.techniques = IF response.key_techniques # <<>>
                           THEN response.key_techniques
                           ELSE instruction.techniques]

\* `enhanced` when the language model gave one, else the ingredient or the
\* instruction as normalized so far
OrElse(enhanced, normalized) == IF enhanced # None THEN enhanced ELSE normalized

\* the end of one pass of the loop of _normalize_ingredients; responses[i]
\* is what the language model answers when it is asked about ingredient i
EnhancedIngredient(ingredient, normalized_ingredient, responses, i) ==
    IF _needs_llm_normalization(ingredient)
    THEN OrElse(_enhance_ingredient_with_llm(normalized_ingredient, responses[i]),
                normalized_ingredient)
    ELSE normalized_ingredient

\* one pass of the loop of _normalize_ingredients
NormalizedIngredient(ingredient, responses, i) ==
    EnhancedIngredient(
        ingredient,
        [ingredient EXCEPT
           !.name = normalize_ingredient_name[ingredient.name],
           !.preparation = IF ingredient.preparation # ""
                           THEN _clean_text(ingredient.preparation) ELSE "",
           !.unit = normalize_unit[ingredient.unit]],
        responses, i)

_normalize_ingredients(ingredients, responses) ==
    [i \in 1..Len(ingredients) |-> NormalizedIngredient(ingredients[i], responses, i)]

\* the end of one pass of the loop of _normalize_instructions
EnhancedInstruction(instruction, normalized_instruction, responses, i) ==
    IF _needs_instruction_enhancement(instruction)
    THEN OrElse(_enhance_instruction_with_llm(normalized_instruction, responses[i]),
                normalized_instruction)
    ELSE normalized_instruction

\* one pass of the loop of _normalize_instructions
NormalizedInstruction(instruction, responses, i) ==
    EnhancedInstruction(
        instruction,
        [instruction EXCEPT
           !.instruction = clean_instruction_text[instruction.instruction]],
        responses, i)

_normalize_instructions(instructions, responses) ==
    [i \in 1..Len(instructions) |->
        NormalizedInstruction(instructions[i], responses, i)]

\* cents as d.dd
Decimal2(cents) ==
    ToString(cents \div 100) \o "."
    \o ToString((cents % 100) \div 10) \o ToString(cents % 10)

\* n = floor(twice / 2^65) is the nearest number of hundredths, and on a tie
\* the even one is taken
HalfEven(twice, n) ==
    IF BigCmp(BigMulSmall(BigPow2(65), n), twice) = 0 /\ n % 2 = 1
    THEN n - 1 ELSE n

Hundredths(twice) == HalfEven(twice, BigFloorDiv(twice, BigPow2(65)))

\* f"{quality_score:.2f}": the decimal nearest to the double, ties to even
TwoDecimals(x) ==
    Decimal2(Hundredths(BigAdd(BigMulSmall(x, 200), BigPow2(64))))

\* normalize, step by step: normalized_recipe is the copy being changed
WithIngredients(recipe, responses) ==
    IF enable_ingredient_normalization
    THEN add_processing_note(
             [recipe EXCEPT !.ingredients =
                 _normalize_ingredients(recipe.ingredients, responses)],
             "Ingredients normalized")
    ELSE recipe

WithInstructions(recipe, normalized_recipe, responses) ==
    IF enable_instruction_enhancement
    THEN add_processing_note(
             [normalized_recipe EXCEPT !.instructions =
                 _normalize_instructions(recipe.instructions, responses)],
             "Instructions normalized")
    ELSE normalized_recipe

WithTexts(recipe, normalized_recipe) ==
    [normalized_recipe EXCEPT
       !.title = clean_text[recipe.title],
       !.description = IF recipe.description # ""
                       THEN clean_text[recipe.description] ELSE "",
       !.servings = _normalize_servings(recipe.servings)]

\* normalize up to the cleaned text fields and the servings
Cleaned(recipe, ingredient_responses, instruction_responses) ==
    WithTexts(recipe,
              WithInstructions(recipe,
                               WithIngredients(recipe, ingredient_responses),
                               instruction_responses))

\* the end of normalize: the score of the recipe as it is returned
Scored(normalized_recipe, quality_score) ==
    AgentResult(TRUE,
                add_processing_note(
                    [normalized_recipe EXCEPT !.confidence_score = quality_score],
                    "Normalization completed with quality score: "
                        \o TwoDecimals(quality_score)),
                [quality_score |-> quality_score,
                 ingredients_normalized |-> Len(normalized_recipe.ingredients),
                 instructions_normalized |-> Len(normalized_recipe.instructions)])

\* normalize that scores the recipe it was given, before it is cleaned
normalize_scored_first(recipe, ingredient_responses, instruction_responses) ==
    Scored(_validate_timing(Cleaned(recipe, ingredient_responses,
                                    instruction_responses)),
           _calculate_quality_score(recipe))

ScoredItself(normalized_recipe) ==
    Scored(normalized_recipe, _calculate_quality_score(normalized_recipe))

normalize(recipe, ingredient_responses, instruction_responses) ==
    ScoredItself(_validate_timing(Cleaned(recipe, ingredient_responses,
                                          instruction_responses)))

(***************************************************************************)
(* agents/converter.py: ConverterAgent.convert on a whole recipe           *)
(***************************************************************************)
\* str() of a float given in hundredths: 200 is "2.0", 25 is "0.25"
PyFloatStr(q) ==
    ToString(q \div 100) \o "."
    \o (IF q % 10 = 0 THEN ToString((q % 100) \div 10)
        ELSE ToString((q % 100) \div 10) \o ToString(q % 10))

\* the choice that takes only "cup" for imperial
_determine_preferred_system_cups(processing) ==
    IF processing.preferred_volume_unit \in {"ml", "l"} THEN "metric"
    ELSE IF processing.preferred_volume_unit = "cup" THEN "imperial"
    ELSE "metric"

_determine_preferred_system(processing) ==
    IF processing.preferred_volume_unit \in {"ml", "l"} THEN "metric"
    ELSE IF processing.preferred_volume_unit \in {"cup", "tbsp", "tsp"} THEN "imperial"
    ELSE "metric"

_apply_conversion_to_ingredient(ingredient, conversion) ==
    LET metric == StrContains(conversion.converted_unit, "metric")
        imperial == conversion.converted_unit \in {"cup", "tbsp", "tsp", "oz", "lb"}
        weight == conversion.converted_unit \in {"g", "kg", "oz", "lb"}
        note == "Converted from " \o PyFloatStr(conversion.original_quantity)
                \o " " \o conversion.original_unit
    IN  [ingredient EXCEPT
           !.quantity = conversion.converted_quantity,
           !.unit = conversion.converted_unit,
           !.metric_quantity = IF metric THEN conversion.converted_quantity
                               ELSE NoQuantity,
           !.metric_unit = IF metric THEN conversion.converted_unit ELSE "",
           !.imperial_quantity = IF imperial THEN conversion.converted_quantity
                                 ELSE NoQuantity,
           !.imperial_unit = IF imperial THEN conversion.converted_unit ELSE "",
           !.weight_quantity = IF weight THEN conversion.converted_quantity
                               ELSE NoQuantity,
           !.weight_unit = IF weight THEN conversion.converted_unit ELSE "",
           !.notes = IF conversion.is_approximation
                     THEN IF conversion.notes # ""
                          THEN note \o " (" \o conversion.notes \o ")"
                          ELSE note
                     ELSE ingredient.notes]

IngredientConversionResult(ingredient, conversion_result) ==
    [kind |-> "IngredientConversionResult",
     ingredient |-> ingredient,
     conversion_result |-> conversion_result,
     is_approximation |-> conversion_result.is_approximation]

\* f"{ingredient.quantity}_{ingredient.unit}_{ingredient.name}_{target_system}"
CacheKey(ingredient, target_system) ==
    PyFloatStr(ingredient.quantity) \o "_" \o ingredient.unit \o "_"
    \o ingredient.name \o "_" \o target_system

\* what _convert_ingredient returns and the cache it leaves
Converted(result, cache) == [result |-> result, conversion_cache |-> cache]

\* the conversion of the target system; None for any other system
ConvertTo(ingredient, target_system) ==
    CASE target_system = "metric" -> _convert_to_metric(ingredient)
      [] target_system = "imperial" -> _convert_to_imperial(ingredient)
      [] target_system = "weight" -> _convert_to_weight(ingredient)
      [] OTHER -> NoResult

\* _convert_ingredient once the conversion has returned or raised
Fresh(cache, cache_key, ingredient, conversion_result) ==
    IF conversion_result.kind = "ConversionResult"
    THEN Converted(IngredientConversionResult(
                       _apply_conversion_to_ingredient(ingredient, conversion_result),
                       conversion_result),
                   (cache_key :> conversion_result) @@ cache)
    ELSE Converted(None, cache)

_convert_ingredient(cache, ingredient, target_system) ==
    IF CacheKey(ingredient, target_system) \in DOMAIN cache
    THEN Converted(IngredientConversionResult(
                       _apply_conversion_to_ingredient(
                           ingredient, cache[CacheKey(ingredient, target_system)]),
                       cache[CacheKey(ingredient, target_system)]),
                   cache)
    ELSE Fresh(cache, CacheKey(ingredient, target_system), ingredient,
               ConvertTo(ingredient, target_system))

\* the state of the loop of convert over converted_recipe.ingredients
Loop(ingredients, cache, conversion_results) ==
    [ingredients |-> ingredients, conversion_cache |-> cache,
     conversion_results |-> conversion_results]

\* the loop's step for ingredient i once _convert_ingredient has returned
AfterIngredient(loop, i, converted) ==
    IF converted.result # None
    THEN Loop([loop.ingredients EXCEPT ![i] = converted.result.ingredient],
              converted.conversion_cache,
              Append(loop.conversion_results, converted.result))
    ELSE Loop(loop.ingredients, converted.conversion_cache, loop.conversion_results)

\* the loop ended by the first ingredient that has no conversion
RECURSIVE ConvertIngredients_aborting(_, _, _)
ConvertIngredients_aborting(loop, i, target_system) ==
    IF i > Len(loop.ingredients) THEN loop
    ELSE IF loop.ingredients[i].quantity # NoQuantity /\ loop.ingredients[i].unit # ""
    THEN IF ConvertTo(loop.ingredients[i], target_system).kind # "ConversionResult"
         THEN loop
         ELSE ConvertIngredients_aborting(
                  AfterIngredient(loop, i,
                                  _convert_ingredient(loop.conversion_cache,
                                                      loop.ingredients[i],
                                                      target_system)),
                  i + 1, target_system)
    ELSE ConvertIngredients_aborting(loop, i + 1, target_system)

RECURSIVE ConvertIngredients(_, _, _)
ConvertIngredients(loop, i, target_system) ==
    IF i > Len(loop.ingredients) THEN loop
    ELSE IF loop.ingredients[i].quantity # NoQuantity /\ loop.ingredients[i].unit # ""
    THEN ConvertIngredients(
             AfterIngredient(loop, i,
                             _convert_ingredient(loop.conversion_cache,
                                                 loop.ingredients[i], target_system)),
             i + 1, target_system)
    ELSE ConvertIngredients(loop, i + 1, target_system)

\* one instruction of _convert_instruction_temperatures
ConvertedTemperature(instruction, target_system) ==
    IF ~Truthy(instruction.temperature) THEN instruction
    ELSE IF target_system = "metric" /\ instruction.temperature_unit = "F"
    THEN [instruction EXCEPT
            !.temperature =
                convert_temperature(instruction.temperature, "F", "C").converted_quantity,
            !.temperature_unit = "C"]
    ELSE IF target_system = "imperial" /\ instruction.temperature_unit = "C"
    THEN [instruction EXCEPT
            !.temperature =
                convert_temperature(instruction.temperature, "C", "F").converted_quantity,
            !.temperature_unit = "F"]
    ELSE instruction

_convert_instruction_temperatures(recipe, target_system) ==
    [recipe EXCEPT !.instructions =
        [k \in 1..Len(recipe.instructions) |->
            ConvertedTemperature(recipe.instructions[k], target_system)]]

\* the count that takes every conversion for an approximation
Approximations_all(conversion_results) == Len(conversion_results)

\* sum(1 for r in conversion_results if r.is_approximation)
Approximations(conversion_results) ==
    Cardinality({k \in 1..Len(conversion_results) :
                    conversion_results[k].is_approximation})

\* the processing notes convert adds
WithConversionNotes(recipe, target_system, approx_count) ==
    IF approx_count > 0
    THEN add_processing_note(
             add_processing_note(recipe, "Units converted to " \o target_system
                                         \o " system"),
             ToString(approx_count) \o " conversions are approximations")
    ELSE add_processing_note(recipe, "Units converted to " \o target_system
                                     \o " system")

\* convert once the loop over the ingredients has ended
AfterLoop(recipe, target_system, loop) ==
    [result |->
        AgentResult(TRUE,
                    WithConversionNotes(
                        _convert_instruction_temperatures(
                            [recipe EXCEPT !.ingredients = loop.ingredients],
                            target_system),
                        target_system, Approximations(loop.conversion_results)),
                    [target_system |-> target_system,
                     conversions_made |-> Len(loop.conversion_results),
                     approximations |-> Approximations(loop.conversion_results)]),
     conversion_cache |-> loop.conversion_cache]

\* convert with the target system resolved
ConvertResolved(cache, recipe, target_system) ==
    AfterLoop(recipe, target_system,
              ConvertIngredients(Loop(recipe.ingredients, cache, <<>>), 1,
                                 target_system))

\* the AgentResult and the conversion_cache the call leaves
convert(cache, processing, recipe, target_system) ==
    ConvertResolved(cache, recipe,
                    IF target_system = "preferred"
                    THEN _determine_preferred_system(processing)
                    ELSE target_system)

(***************************************************************************)
(* State: one recipe on its way through the parser's enrichment, the       *)
(* normalizer and the converter.                                           *)
(*   stage                "parsing" while ingredients are being enriched,  *)
(*                        then "parsed", "normalized", "converted"         *)
(*   current_recipe       the recipe as the last agent left it             *)
(*   enriched             how many ingredients the parser has enriched     *)
(*   given                the recipe the last call was given               *)
(*   agent_result         the AgentResult of the last agent call           *)
(*   target               the target_system argument of the last convert   *)
(*   conversion_cache     ConverterAgent.conversion_cache                  *)
(*   converts             the number of convert calls so far               *)
(*   settings_processing  settings.processing                              *)
(***************************************************************************)
\* the values of settings.processing.preferred_volume_unit: the default
\* "cup", others of both systems, and values of neither
PreferredVolumeUnits == {"cup", "tbsp", "tsp", "ml", "l", "pint", "CUP", ""}

\* the tie direction of round(), the USDA key and the preferred volume unit
\* of a run: every combination with the default unit, and one run with each
\* of three other units
Configuration(f, k, u) == [fp |-> f, api_key |-> k, preferred_volume_unit |-> u]

Configurations ==
    {Configuration(f, k, "cup") : f \in {"down", "up"}, k \in {"", "key"}}
    \cup {Configuration("down", "key", u) : u \in {"ml", "tsp", "pint"}}

InitRecipe ==
    /\ \E c \in Configurations :
           /\ fp = c.fp
           /\ api_key = c.api_key
           /\ settings_processing =
                  [preferred_volume_unit |-> c.preferred_volume_unit]
    /\ op = "start" /\ args = [family |-> "none"]
    /\ res = NoResult /\ back = NoResult
    /\ use_usda_api = TRUE
    /\ Constructed
    /\ current_recipe \in ParsedRecipes
    /\ stage = IF current_recipe.ingredients = <<>> THEN "parsed" ELSE "parsing"
    /\ enriched = 0
    /\ given = None
    /\ agent_result = None
    /\ target = ""
    /\ conversion_cache = << >>
    /\ converts = 0
    /\ NoFlow

\* the parser's loop after one more ingredient
Enhanced(ingredient) ==
    /\ current_recipe' = [current_recipe EXCEPT !.ingredients[enriched + 1] = ingredient]
    /\ given' = current_recipe
    /\ enriched' = enriched + 1
    /\ stage' = IF enriched + 1 = Len(current_recipe.ingredients) THEN "parsed" ELSE "parsing"
    /\ UNCHANGED <<agent_result, target, conversion_cache, converts, settings_processing>>
    /\ UNCHANGED <<use_usda_api, api_key>>
    /\ UNCHANGED convVars
    /\ UNCHANGED flowVars

\* the call of find_density and what the enrichment makes of its answer
Looked(ingredient, answer) ==
    /\ Leaves(ingredient.name, answer)
    /\ asked_threshold' = DefaultThreshold
    /\ calls' = calls + 1
    /\ Enhanced(_enhance_ingredient_with_density(ingredient, answer.value))

\* _enhance_ingredient_with_density on the next ingredient of the recipe
EnhanceIngredient ==
    /\ stage = "parsing"
    /\ LET ingredient == current_recipe.ingredients[enriched + 1]
       IN  IF ingredient.name = "" \/ Falsy(ingredient.quantity)
           THEN /\ Enhanced(ingredient)
                /\ UNCHANGED <<usda_cache, net, queries, asked, found, calls,
                               asked_threshold>>
           ELSE \E outcome \in Outcomes :
                    \E outcomes \in [FdcIdsOf(ingredient.name) -> Outcomes] :
                        Looked(ingredient,
                               find_density(ingredient.name, DefaultThreshold,
                                            outcome, outcomes))

\* the state an agent call leaves
AgentReturned(result, next_stage) ==
    /\ agent_result' = result
    /\ current_recipe' = IF result.success THEN result.data ELSE current_recipe
    /\ given' = current_recipe
    /\ stage' = next_stage

\* the ingredients and the instructions the language model is asked about
IngredientsAsked(recipe) ==
    {i \in 1..Len(recipe.ingredients) :
        _needs_llm_normalization(recipe.ingredients[i])}

InstructionsAsked(recipe) ==
    {i \in 1..Len(recipe.instructions) :
        _needs_instruction_enhancement(recipe.instructions[i])}

\* NormalizerAgent.normalize on the parsed recipe
Normalize ==
    /\ stage = "parsed"
    /\ \E ingredient_responses \in
              [IngredientsAsked(current_recipe) -> IngredientReplies],
          instruction_responses \in
              [InstructionsAsked(current_recipe) -> InstructionReplies] :
          AgentReturned(normalize(current_recipe, ingredient_responses,
                                  instruction_responses),
                        "normalized")
    /\ UNCHANGED <<enriched, target, conversion_cache, converts, settings_processing>>
    /\ UNCHANGED lookupVars
    /\ UNCHANGED convVars
    /\ UNCHANGED flowVars

ConverterReturns(out) ==
    /\ AgentReturned(out.result, "converted")
    /\ conversion_cache' = out.conversion_cache

\* ConverterAgent.convert on the recipe as it stands
Convert ==
    /\ stage \in {"parsed", "normalized", "converted"}
    /\ converts < MaxConverts
    /\ \E target_system \in TargetSystems :
          /\ ConverterReturns(convert(conversion_cache, settings_processing, current_recipe,
                                      target_system))
          /\ target' = target_system
    /\ converts' = converts + 1
    /\ UNCHANGED <<enriched, settings_processing>>
    /\ UNCHANGED lookupVars
    /\ UNCHANGED convVars
    /\ UNCHANGED flowVars

NextRecipe ==
    \/ EnhanceIngredient
    \/ Normalize
    \/ Convert

SpecRecipe == InitRecipe /\ [][NextRecipe]_vars

(***************************************************************************)
(* Properties                                                              *)
(***************************************************************************)
Returned == res.kind = "ConversionResult"

Table(family, u) ==
    IF family = "volume" THEN VOLUME_CONVERSIONS(u) ELSE WEIGHT_CONVERSIONS(u)

UnitsOf(family) == IF family = "volume" THEN VolumeUnit ELSE WeightUnit

\* v * factor(u1) / factor(u2), exactly
Linear(family, v, u1, u2) ==
    RatDiv(RatMul(RatOfQty(v), Table(family, StrLower(u1))),
           Table(family, StrLower(u2)))

\* |a - b| <= t for quantities a, b in hundredths and a rational t
Within(a, b, t) ==
    /\ RatLeq(RatOfQty(a), RatAdd(RatOfQty(b), t))
    /\ RatLeq(RatOfQty(b), RatAdd(RatOfQty(a), t))

\* |a - x| <= t for a quantity a in hundredths and rationals x, t
Near(a, x, t) ==
    /\ RatLeq(RatOfQty(a), RatAdd(x, t))
    /\ RatLeq(x, RatAdd(RatOfQty(a), t))

\* C1: convert_volume and convert_weight return, for every pair of units of
\* the family and every quantity v, the quantity smart_round(v * factor(u1) /
\* factor(u2), u2) in unit u2 with conversion_factor factor(u1) / factor(u2)
\* and the original quantity and unit v and u1; 1 cup is 237 ml and 2000 g
\* are 2 kg.
C1_ConvertFields ==
    op \in {"convert_volume", "convert_weight"} =>
        /\ ( /\ StrLower(args.from_unit) \in UnitsOf(args.family)
             /\ StrLower(args.to_unit) \in UnitsOf(args.family) )
           => /\ Returned
              /\ res.converted_quantity =
                     smart_round(Linear(args.family, args.quantity,
                                        args.from_unit, args.to_unit), args.to_unit)
              /\ res.converted_unit = args.to_unit
              /\ RatEq(res.conversion_factor,
                       RatDiv(Table(args.family, StrLower(args.from_unit)),
                              Table(args.family, StrLower(args.to_unit))))
              /\ res.original_quantity = args.quantity
              /\ res.original_unit = args.from_unit
        /\ (args.quantity = 100 /\ args.from_unit = "cup" /\ args.to_unit = "ml")
           => res.converted_quantity = 23700
        /\ (args.quantity = 200000 /\ args.from_unit = "g" /\ args.to_unit = "kg")
           => res.converted_quantity = 200

C1_Witness ==
    /\ op = "convert_volume"
    /\ args.quantity = 100 /\ args.from_unit = "cup" /\ args.to_unit = "ml"
    /\ Returned /\ res.converted_quantity = 23700

FamilyOf(unit) ==
    IF StrLower(unit) \in VolumeUnit THEN "volume"
    ELSE IF StrLower(unit) \in WeightUnit THEN "weight"
    ELSE IF StrUpper(unit) \in {"C", "F"} THEN "temperature"
    ELSE "none"

Crossed(r) == {FamilyOf(r.original_unit), FamilyOf(r.converted_unit)} = {"volume", "weight"}

\* some key of the density table matches the name, directly or partially
DensityKnown(name) ==
    \E i \in 1..Len(DensityKeys) :
        \/ DensityKeys[i] = StrLower(name)
        \/ StrContains(StrLower(name), DensityKeys[i])
        \/ StrContains(DensityKeys[i], StrLower(name))

\* C2: a ConversionResult of the UnitConverter or of the agent's metric,
\* imperial and weight conversions has is_approximation set exactly when its
\* original and converted units lie in different families, one volume and one
\* weight, and then a density of the ingredient was used.
C2_ApproximationFlag ==
    (op \notin {"start", "round_trip"} /\ Returned) =>
        /\ res.is_approximation <=> Crossed(res)
        /\ res.is_approximation => DensityKnown(res.ingredient_name)

C2_Witness ==
    /\ op = "_convert_to_weight"
    /\ Returned /\ res.is_approximation
    /\ res.converted_unit = "kg" /\ FamilyOf(res.original_unit) = "volume"

\* the value the call rounds: the linear conversion, times or divided by the
\* density for the two density conversions
Unrounded ==
    CASE op = "convert_volume" ->
             Linear("volume", args.quantity, args.from_unit, args.to_unit)
      [] op = "convert_weight" ->
             Linear("weight", args.quantity, args.from_unit, args.to_unit)
      [] op = "volume_to_weight" ->
             RatMul(Linear("volume", args.quantity, args.unit, "ml"),
                    res.conversion_factor)
      [] op = "weight_to_volume" ->
             RatMul(Linear("weight", args.quantity, args.unit, "g"),
                    res.conversion_factor)

\* the rounding policy read with the unit spelled as `unit`
RoundedByPolicy(unit) ==
    IF unit \in {"ml", "g"}
    THEN IF RatLess(Unrounded, Rat(1, 1))
         THEN /\ res.converted_quantity % 10 = 0
              /\ Near(res.converted_quantity, Unrounded, Rat(5, 100))
         ELSE /\ res.converted_quantity % 100 = 0
              /\ Near(res.converted_quantity, Unrounded, Rat(1, 2))
    ELSE Near(res.converted_quantity, Unrounded, Rat(5, 1000))

ConverterReturned ==
    /\ op \in {"convert_volume", "convert_weight",
               "volume_to_weight", "weight_to_volume"}
    /\ Returned

\* C3: the converted quantity of convert_volume, convert_weight,
\* volume_to_weight and weight_to_volume is the unrounded value rounded by
\* the policy of its converted unit: for ml and g to an integer when the
\* value is at least 1 and to one decimal below 1, for every other unit to
\* two decimals.  The unit is the one the converter validated, whatever the
\* case it was typed in.
C3_SmartRounding ==
    ConverterReturned => RoundedByPolicy(StrLower(res.converted_unit))

\* What holds of the rounding: the policy is applied to the converted unit
\* as it was typed, so "ML" and "G" are rounded to two decimals.
SmartRoundingAsTyped ==
    ConverterReturned => RoundedByPolicy(res.converted_unit)

\* the volume of the ingredient in ml, exactly
IngredientMl == Linear("volume", args.quantity, args.unit, "ml")

\* C4: converting an ingredient with a volume unit and a positive quantity
\* to metric reports "l" with the smart-rounded ml / 1000 when the volume is
\* 1000 ml or more and reports "ml" when it is below 1000 ml.
C4_MetricVolumeBucketing ==
    ( /\ op = "_convert_to_metric"
      /\ args.quantity > 0
      /\ StrLower(args.unit) \in VolumeUnit ) =>
        /\ Returned
        /\ IF RatLeq(Rat(1000, 1), IngredientMl)
           THEN /\ res.converted_unit = "l"
                /\ res.converted_quantity =
                       smart_round(RatScale(IngredientMl, 1, 1000), "l")
           ELSE res.converted_unit = "ml"

\* half the largest rounding step smart_round takes for a unit
HalfStep(unit) == IF StrLower(unit) \in {"ml", "g"} THEN Rat(1, 2) ELSE Rat(5, 1000)

RoundTripDone ==
    /\ op = "round_trip"
    /\ back.kind = "ConversionResult"

\* C5 as stated: converting v from u1 to u2 and the returned quantity back
\* from u2 to u1, both in one family, yields smart_round(v, u1).
C5_RoundTripExact ==
    ( /\ RoundTripDone
      /\ args.family \in {"volume", "weight"}
      /\ args.quantity > 0 ) =>
        back.converted_quantity = smart_round(RatOfQty(args.quantity), args.from_unit)

\* C5 amended: the round trip returns v within the rounding tolerance: the
\* half step of u2 expressed in u1 plus the half step of u1.
C5_RoundTripWithinTolerance ==
    ( /\ RoundTripDone
      /\ args.family \in {"volume", "weight"}
      /\ args.quantity > 0 ) =>
        Within(back.converted_quantity, args.quantity,
               RatAdd(RatMul(HalfStep(args.to_unit),
                             RatDiv(Table(args.family, StrLower(args.to_unit)),
                                    Table(args.family, StrLower(args.from_unit)))),
                      HalfStep(args.from_unit)))

C5_Witness ==
    /\ RoundTripDone
    /\ args.family = "volume" /\ args.quantity = 100
    /\ args.from_unit = "tsp" /\ args.to_unit = "cup"
    /\ res.converted_quantity = 2
    /\ back.converted_quantity = 96

SameTemperatureUnit == StrUpper(args.from_unit) = StrUpper(args.to_unit)

\* C6 as stated: a temperature with at most one decimal converted from F to
\* C and back, or from C to F and back, is v again; with equal units the
\* result is v with conversion_factor 1.0.
C6_TemperatureRoundTripExact ==
    /\ ( /\ RoundTripDone /\ args.family = "temperature"
         /\ ~SameTemperatureUnit )
       => back.converted_quantity = args.quantity
    /\ ( /\ op = "convert_temperature" /\ SameTemperatureUnit )
       => /\ Returned
          /\ res.converted_quantity = args.quantity
          /\ RatEq(res.conversion_factor, Rat(1, 1))

\* What the temperature round trip does keep: from C to F and back is v
\* exactly; from F to C and back is v within 0.1 degree; with equal units the
\* result is v with factor 1.0.
C6_TemperatureRoundTrip ==
    /\ ( /\ RoundTripDone /\ args.family = "temperature"
         /\ StrUpper(args.from_unit) = "C" /\ StrUpper(args.to_unit) = "F" )
       => back.converted_quantity = args.quantity
    /\ ( /\ RoundTripDone /\ args.family = "temperature"
         /\ StrUpper(args.from_unit) = "F" /\ StrUpper(args.to_unit) = "C" )
       => /\ back.converted_quantity - args.quantity <= 10
          /\ args.quantity - back.converted_quantity <= 10
    /\ ( /\ op = "convert_temperature" /\ SameTemperatureUnit )
       => /\ Returned
          /\ res.converted_quantity = args.quantity
          /\ RatEq(res.conversion_factor, Rat(1, 1))

C6_Witness ==
    /\ RoundTripDone
    /\ args.family = "temperature" /\ args.quantity = 35000
    /\ args.from_unit = "F" /\ args.to_unit = "C"
    /\ res.converted_quantity = 17670
    /\ back.converted_quantity = 35010

\* the unit is in the table of the family the operation converts
InTable(unit) ==
    CASE op = "convert_volume" -> StrLower(unit) \in VolumeUnit
      [] op = "convert_weight" -> StrLower(unit) \in WeightUnit
      [] op = "convert_temperature" -> StrUpper(unit) \in {"C", "F"}

\* C7: convert_volume, convert_weight and convert_temperature given a from
\* or to unit outside the family's table raise an error naming the units and
\* return no ConversionResult.
C7_InvalidUnitFails ==
    ( /\ op \in {"convert_volume", "convert_weight", "convert_temperature"}
      /\ (~InTable(args.from_unit) \/ ~InTable(args.to_unit)) ) =>
        /\ res.kind = "ValueError"
        /\ StrContains(StrLower(res.message), StrLower(args.from_unit))
        /\ StrContains(StrLower(res.message), StrLower(args.to_unit))

\* the unit is a unit of the family the density conversion starts from
SourceUnitValid ==
    IF op = "volume_to_weight" THEN StrLower(args.unit) \in VolumeUnit
    ELSE StrLower(args.unit) \in WeightUnit

InBand(record) ==
    \/ record = None
    \/ /\ FracLeq(Frac(1, 10), record.density_g_ml)
       /\ FracLeq(record.density_g_ml, Frac(3, 1))

\* the cache key of the search that find_density_info sends for a name
SearchKey(ingredient_name) == "search_" \o ingredient_name \o "_3"

\* C9: every density record that find_density returns or caches, from the
\* local table or from the external source, has density_g_ml within
\* [0.1, 3.0].
C9_DensityBand ==
    /\ InBand(found)
    /\ \A n \in DOMAIN usda_cache : InBand(usda_cache[n])

\* C10: over any sequence of find_density calls on one DensityLookup the
\* external source is queried at most once for each ingredient name, whether
\* the first query found a density, found nothing or failed: no search for
\* a name is sent to the service a second time.
C10_QueriedOncePerName ==
    \A n \in LookupNames : net.gets[SearchKey(n)] <= 1

\* the normalized form of every name find_density is asked for
NormalizedQuery == [n \in LookupNames |-> _normalize_ingredient_name(n)]

\* some entry of the local table has the normalized name of the query
LocalEntryNamed(ingredient_name) ==
    \E r \in 1..Len(densities_df) :
        densities_df[r].search_name = NormalizedQuery[ingredient_name]

SameFrac(x, y) == FracLeq(x, y) /\ FracLeq(y, x)

FromUSDA(record) == record # None /\ record.category = "USDA FoodData Central"

FromLocal(record) == record # None /\ record.category # "USDA FoodData Central"

\* the last find_density returned the entry of the table that has the
\* normalized name of the query, with confidence 1.0
ExactEntryReturned ==
    /\ FromLocal(found)
    /\ found.search_name = NormalizedQuery[asked]
    /\ SameFrac(found.match_score, Frac(1, 1))

\* a step of find_density that reaches the external source
ExternalQueried == queries' # queries \/ net' # net

\* C11: the strategies are tried in the order exact, fuzzy, partial,
\* external and the first success wins: a query whose normalized form is the
\* normalized name of a local entry returns that entry with confidence 1.0,
\* and the external source is queried only in a call in which no local
\* strategy succeeded.
C11_StrategyOrder ==
    /\ []( (calls > 0 /\ asked # "" /\ LocalEntryNamed(asked))
              => ExactEntryReturned )
    /\ [][ ExternalQueried
              => local_results[asked', asked_threshold'] = None ]_vars

\* What holds of the order: a local success keeps the external source out of
\* the call, and a multi-word name that is in the table is returned with 1.0.
LocalBeforeExternal ==
    [][ ExternalQueried => local_results[asked', asked_threshold'] = None ]_vars

C13_PartialWordMatch ==
    /\ []( (calls > 0 /\ asked = "kosher salt" /\ asked_threshold = DefaultThreshold)
              => /\ FromLocal(found)
                 /\ SameFrac(found.density_g_ml, Frac(12, 10))
                 /\ FracLeq(Frac(6, 10), found.match_score)
                 /\ FracLess(found.match_score, Frac(1, 1)) )
    /\ [][ (asked' = "kosher salt" /\ asked_threshold' = DefaultThreshold)
              => ~ExternalQueried ]_vars

(***************************************************************************)
(* Properties of the recipe on its way through the agents                  *)
(***************************************************************************)
\* the last call was convert; given is the recipe it was called with
ConvertReturned == stage = "converted"

\* the target system the last convert resolved its argument to
Resolved == agent_result.metadata.target_system

\* convert reaches the ingredient and its conversion returns a result
Convertible(ingredient, target_system) ==
    /\ ingredient.quantity # NoQuantity
    /\ ingredient.unit # ""
    /\ ConvertTo(ingredient, target_system).kind = "ConversionResult"

Replaced ==
    {i \in 1..Len(given.ingredients) :
        agent_result.data.ingredients[i] # given.ingredients[i]}

\* C15: the metadata of every result of convert counts the ingredients it
\* replaced (conversions_made) and those of them whose conversion is an
\* approximation (approximations), and
\* approximations <= conversions_made <= the number of ingredients.
C15_AggregateOutcome ==
    ConvertReturned =>
        /\ agent_result.metadata.conversions_made = Cardinality(Replaced)
        /\ agent_result.metadata.approximations =
               Cardinality({i \in Replaced :
                               ConvertTo(given.ingredients[i],
                                         Resolved).is_approximation})
        /\ agent_result.metadata.approximations
               <= agent_result.metadata.conversions_made
        /\ agent_result.metadata.conversions_made <= Len(given.ingredients)

\* two cups of sugar weighed by density and three pounds re-bucketed
C15_Witness ==
    /\ ConvertReturned
    /\ target = "weight"
    /\ Len(given.ingredients) = 3
    /\ agent_result.metadata.conversions_made = 3
    /\ agent_result.metadata.approximations = 2

\* one of two ingredients converted: the partial outcome shows in the counts
C15_PartialWitness ==
    /\ ConvertReturned
    /\ Len(given.ingredients) = 2
    /\ agent_result.metadata.conversions_made = 1
    /\ agent_result.metadata.approximations = 0

\* a unit that is absent or in no volume or weight table
CountLike(unit) ==
    \/ unit = ""
    \/ /\ ~_is_volume_unit(unit)
       /\ ~_is_weight_unit(unit)
       /\ StrLower(unit) \notin VolumeUnit \cup WeightUnit

\* the quantity, the unit and the three parallel pairs of an ingredient
Measures(ingredient) ==
    <<ingredient.quantity, ingredient.unit,
      ingredient.metric_quantity, ingredient.metric_unit,
      ingredient.imperial_quantity, ingredient.imperial_unit,
      ingredient.weight_quantity, ingredient.weight_unit>>

\* the step is the enrichment of ingredient i by the parser
Enriches(i) == stage = "parsing" /\ enriched' = i

\* the step is a call of convert
Converts == converts' = converts + 1

FLeq(x, y) == BigCmp(x, y) <= 0

\* no title, no description, no ingredients, no instructions, no metadata
EmptyRecipe(recipe) ==
    /\ recipe.title = "" /\ recipe.description = ""
    /\ recipe.ingredients = <<>> /\ recipe.instructions = <<>>
    /\ recipe.prep_time = NoQuantity /\ recipe.cook_time = NoQuantity
    /\ recipe.servings = NoQuantity
    /\ recipe.difficulty = "" /\ recipe.cuisine = ""

\* a long title and description, ingredients that all have a name, a
\* quantity and a unit, steps that all have a text longer than 10, a time
\* and equipment, and the five metadata fields
CompleteRecipe(recipe) ==
    /\ Len(recipe.title) > 5 /\ Len(recipe.description) > 20
    /\ recipe.ingredients # <<>>
    /\ \A i \in 1..Len(recipe.ingredients) :
           /\ recipe.ingredients[i].name # ""
           /\ recipe.ingredients[i].quantity # NoQuantity
           /\ recipe.ingredients[i].unit # ""
    /\ recipe.instructions # <<>>
    /\ \A k \in 1..Len(recipe.instructions) :
           /\ Len(recipe.instructions[k].instruction) > 10
           /\ Truthy(recipe.instructions[k].time_minutes)
           /\ recipe.instructions[k].equipment # <<>>
    /\ Truthy(recipe.prep_time) /\ Truthy(recipe.cook_time)
    /\ Truthy(recipe.servings)
    /\ recipe.difficulty # "" /\ recipe.cuisine # ""

\* quality_score is the score of the recipe
ScoreWithin(recipe, quality_score) ==
    /\ FLeq(F0_0, quality_score) /\ FLeq(quality_score, F1_0)
    /\ EmptyRecipe(recipe) => quality_score = F0_0

ScoreOfComplete(recipe, quality_score) ==
    CompleteRecipe(recipe) => quality_score = F1_0

\* C17: the quality score of every recipe lies in [0.0, 1.0]; it is exactly
\* 0.0 for the empty recipe and exactly 1.0 for a recipe that is complete
\* in its title, description, ingredients, steps and metadata.
C17_ScoreBounds ==
    /\ ScoreWithin(current_recipe, _calculate_quality_score(current_recipe))
    /\ ScoreOfComplete(current_recipe, _calculate_quality_score(current_recipe))

\* the part of C17 that holds: the score lies in [0.0, 1.0], is 0.0 for the
\* empty recipe, and is 1.0 for a complete recipe of fewer than ten steps
ScoreBoundsShort ==
    /\ ScoreWithin(current_recipe, _calculate_quality_score(current_recipe))
    /\ Len(current_recipe.instructions) < 10
           => ScoreOfComplete(current_recipe,
                              _calculate_quality_score(current_recipe))

\* a complete recipe of ten steps scores 1 - 2^-52, the double below 1.0
TenStepsBelowOne ==
    /\ CompleteRecipe(current_recipe)
    /\ Len(current_recipe.instructions) = 10
    /\ BigAdd(_calculate_quality_score(current_recipe), BigPow2(12)) = F1_0

\* normalize has returned the recipe, now or before the last convert
Normalized(recipe) ==
    \E k \in 1..Len(recipe.processing_notes) :
        recipe.processing_notes[k] = "Ingredients normalized"

\* C18: after normalize, and after a convert that follows it with any
\* target system, the confidence_score of the recipe is the quality score
\* computed from the recipe as it now stands.
C18_ScoreConsistent ==
    (stage \in {"normalized", "converted"} /\ Normalized(current_recipe))
        => current_recipe.confidence_score =
               _calculate_quality_score(current_recipe)

\* a normalized recipe whose ingredients convert has replaced, with the
\* score it was given by normalize
C18_Witness ==
    /\ ConvertReturned
    /\ Normalized(given)
    /\ Replaced # {}
    /\ current_recipe.confidence_score # NoScore
    /\ current_recipe.confidence_score = given.confidence_score

\* the weight of a quantity of a weight unit, in grams
Grams(quantity, unit) ==
    RatMul(RatOfQty(quantity), WEIGHT_CONVERSIONS(StrLower(unit)))

\* the weight of a quantity of a volume unit of the ingredient, in grams
GramsOfVolume(quantity, unit, ingredient_name) ==
    RatMul(RatMul(RatOfQty(quantity), VOLUME_CONVERSIONS(StrLower(unit))),
           INGREDIENT_DENSITIES(_find_ingredient_key(ingredient_name)))

\* "kg" from 1000 g on, "g" below
WeightBucket(grams) == IF RatLess(grams, Rat(1000, 1)) THEN "g" ELSE "kg"

\* C19: after convert(recipe, "metric") every ingredient that had a quantity
\* and one of the units g, kg, oz and lb is in kg when its weight is 1000 g
\* or more and in g otherwise.
C19_MetricWeights ==
    (ConvertReturned /\ target = "metric") =>
        \A i \in 1..Len(given.ingredients) :
            (/\ Truthy(given.ingredients[i].quantity)
             /\ StrLower(given.ingredients[i].unit) \in {"g", "kg", "oz", "lb"})
                => agent_result.data.ingredients[i].unit =
                       WeightBucket(Grams(given.ingredients[i].quantity,
                                          given.ingredients[i].unit))

\* what convert(recipe, "metric") does for the weight units: ounces and
\* pounds are in kg from 1000 g on (by the rounded grams) and in g below;
\* grams and kilograms stay as they are
MetricWeightsAsCoded ==
    (ConvertReturned /\ target = "metric") =>
        \A i \in 1..Len(given.ingredients) :
            /\ (/\ Truthy(given.ingredients[i].quantity)
                /\ StrLower(given.ingredients[i].unit) \in {"oz", "lb"})
                   => agent_result.data.ingredients[i].unit =
                          WeightBucket(Grams(given.ingredients[i].quantity,
                                             given.ingredients[i].unit))
            /\ StrLower(given.ingredients[i].unit) \in {"g", "kg"}
                   => agent_result.data.ingredients[i] = given.ingredients[i]

\* 1500 g of brown sugar are still 1500 g after convert(recipe, "metric")
GramsKept ==
    /\ ConvertReturned /\ target = "metric"
    /\ Len(given.ingredients) = 1
    /\ given.ingredients[1].quantity = 150000 /\ given.ingredients[1].unit = "g"
    /\ agent_result.data.ingredients[1].quantity = 150000
    /\ agent_result.data.ingredients[1].unit = "g"

\* C20: after convert(recipe, "weight") every ingredient with a quantity, a
\* name whose density is known and a volume unit (ml, l, tsp, tbsp, fl oz,
\* cup, pint, quart, gallon) is in g when its weight by the density is below
\* 1000 g and in kg otherwise, by a conversion that is an approximation.
C20_WeightOfVolumes ==
    (ConvertReturned /\ target = "weight") =>
        \A i \in 1..Len(given.ingredients) :
            (/\ Truthy(given.ingredients[i].quantity)
             /\ _find_ingredient_key(given.ingredients[i].name) # ""
             /\ StrLower(given.ingredients[i].unit) \in VolumeUnit)
                => /\ agent_result.data.ingredients[i].unit =
                          WeightBucket(GramsOfVolume(given.ingredients[i].quantity,
                                                     given.ingredients[i].unit,
                                                     given.ingredients[i].name))
                   /\ i \in Replaced
                   /\ ConvertTo(given.ingredients[i], "weight").is_approximation

\* what convert(recipe, "weight") does: the claim holds for ml, l, tsp,
\* tbsp, fl oz and cup; pints, quarts and gallons stay as they are
WeightOfVolumesAsCoded ==
    (ConvertReturned /\ target = "weight") =>
        \A i \in 1..Len(given.ingredients) :
            /\ (/\ Truthy(given.ingredients[i].quantity)
                /\ _find_ingredient_key(given.ingredients[i].name) # ""
                /\ StrLower(given.ingredients[i].unit)
                       \in {"ml", "l", "tsp", "tbsp", "fl oz", "cup"})
                   => /\ agent_result.data.ingredients[i].unit =
                             WeightBucket(GramsOfVolume(
                                              given.ingredients[i].quantity,
                                              given.ingredients[i].unit,
                                              given.ingredients[i].name))
                      /\ i \in Replaced
                      /\ ConvertTo(given.ingredients[i], "weight").is_approximation
            /\ StrLower(given.ingredients[i].unit) \in {"pint", "quart", "gallon"}
                   => agent_result.data.ingredients[i] = given.ingredients[i]

\* a pint of sugar is still a pint after convert(recipe, "weight")
PintKept ==
    /\ ConvertReturned /\ target = "weight"
    /\ Len(given.ingredients) = 1
    /\ given.ingredients[1].name = "sugar"
    /\ given.ingredients[1].quantity = 100 /\ given.ingredients[1].unit = "pint"
    /\ agent_result.data.ingredients[1] = given.ingredients[1]
    /\ agent_result.metadata.conversions_made = 0

(***************************************************************************)
(* Properties of the imperial target                                       *)
(***************************************************************************)
\* the imperial unit of a quantity (in hundredths) of a metric unit
ImperialUnit(quantity, unit) ==
    CASE unit = "ml" -> IF quantity <= 1500 THEN "tsp"
                        ELSE IF quantity <= 6000 THEN "tbsp" ELSE "cup"
      [] unit = "l" -> "cup"
      [] unit = "g" -> IF quantity < 45400 THEN "oz" ELSE "lb"
      [] unit = "kg" -> "lb"

\* the value of the quantity in the imperial unit, smart-rounded
ImperialQuantity(quantity, unit) ==
    IF unit \in {"ml", "l"}
    THEN smart_round(RatDiv(RatMul(RatOfQty(quantity), VOLUME_CONVERSIONS(unit)),
                            VOLUME_CONVERSIONS(ImperialUnit(quantity, unit))),
                     ImperialUnit(quantity, unit))
    ELSE smart_round(RatDiv(RatMul(RatOfQty(quantity), WEIGHT_CONVERSIONS(unit)),
                            WEIGHT_CONVERSIONS(ImperialUnit(quantity, unit))),
                     ImperialUnit(quantity, unit))

SystemOf(preferred_volume_unit) ==
    IF preferred_volume_unit \in {"cup", "tbsp", "tsp"} THEN "imperial" ELSE "metric"

\* ingredient i of the result of the last convert is what the target system
\* makes of the ingredient given
Applied(i, target_system) ==
    IF Convertible(given.ingredients[i], target_system)
    THEN /\ agent_result.data.ingredients[i].quantity =
                ConvertTo(given.ingredients[i], target_system).converted_quantity
         /\ agent_result.data.ingredients[i].unit =
                ConvertTo(given.ingredients[i], target_system).converted_unit
    ELSE agent_result.data.ingredients[i] = given.ingredients[i]

\* C22: "preferred" resolves to imperial when preferred_volume_unit is cup,
\* tbsp or tsp and to metric for ml, l and every other value; the result of
\* convert(recipe, "preferred") records the resolved system in
\* metadata.target_system and every ingredient is converted to it.
C22_PreferredResolves ==
    /\ \A u \in PreferredVolumeUnits :
           _determine_preferred_system([preferred_volume_unit |-> u]) = SystemOf(u)
    /\ (ConvertReturned /\ target = "preferred")
           => /\ agent_result.metadata.target_system \in {"metric", "imperial"}
              /\ agent_result.metadata.target_system =
                     SystemOf(settings_processing.preferred_volume_unit)
              /\ \A i \in 1..Len(given.ingredients) :
                     Applied(i, SystemOf(settings_processing.preferred_volume_unit))

\* with the unit "pint" preferred, two cups of sugar come out in millilitres
C22_Witness ==
    /\ ConvertReturned /\ target = "preferred"
    /\ settings_processing.preferred_volume_unit = "pint"
    /\ agent_result.metadata.target_system = "metric"
    /\ Len(given.ingredients) = 1
    /\ given.ingredients[1].unit = "cup"
    /\ agent_result.data.ingredients[1].unit = "ml"

\* with the default unit "cup", 250 ml of oats come out in cups
PreferredImperialReached ==
    /\ ConvertReturned /\ target = "preferred"
    /\ settings_processing.preferred_volume_unit = "cup"
    /\ agent_result.metadata.target_system = "imperial"
    /\ Len(given.ingredients) = 1
    /\ given.ingredients[1].unit = "ml"
    /\ agent_result.data.ingredients[1].unit = "cup"

(***************************************************************************)
(* Part J.  The orchestrators.                                             *)
(*                                                                         *)
(* RecipeOrchestrator.process_recipe calls the agents one after another    *)
(* inside one try block and returns at the first unsuccessful AgentResult. *)
(* LangGraphRecipeOrchestrator runs the same agents as nodes of a graph    *)
(* whose conditional edges read state["success"].  An action is one step   *)
(* of the pipeline: the call of the agent and everything the orchestrator  *)
(* does with its outcome.  The outcome of a call is an input: a successful *)
(* AgentResult, an unsuccessful one with its error, or an exception raised *)
(* inside the try block, which carries the text Python gives it.  The      *)
(* debug files, the timings and the messages are left out: none of them    *)
(* is read by the control flow.                                            *)
(***************************************************************************)
Str(text) == [kind |-> "str", text |-> text]

Path(name) == [kind |-> "Path", name |-> name]

\* the error of an unsuccessful AgentResult as an f-string formats it
AgentErrors == {"None", "Connection refused"}

\* str(e) of an exception raised inside the try block
ExceptionTexts == {"'NoneType' has no attribute 'data'"}

Answered(success, error) ==
    [kind |-> "AgentResult", success |-> success, error |-> error]

Raised(message) == [kind |-> "Exception", message |-> message]

CallOutcomes ==
    {Answered(TRUE, "None")}
    \cup {Answered(FALSE, e) : e \in AgentErrors}
    \cup {Raised(m) : m \in ExceptionTexts}

Succeeded(outcome) == outcome.kind = "AgentResult" /\ outcome.success

OutputFormats == {"html", "json", "JSON", "latex"}

\* the file the renderer writes for a format
OutputPath(format) == Path("output/recipe." \o StrLower(format))

ProcessingResult(success, recipe, output_path, error) ==
    [success |-> success, recipe |-> recipe, output_path |-> output_path,
     error |-> error]

RecipeProcessingState(current_step, recipe_data, success, error, output_path) ==
    [current_step |-> current_step, recipe_data |-> recipe_data,
     success |-> success, error |-> error, output_path |-> output_path]

Invoke(agent, outcome) == Append(invoked, [agent |-> agent, outcome |-> outcome])

InitPipeline ==
    /\ fp = "down" /\ op = "start" /\ args = [family |-> "none"]
    /\ res = NoResult /\ back = NoResult
    /\ use_usda_api = FALSE /\ api_key = ""
    /\ Constructed
    /\ NoRecipe
    /\ NoRetry
    /\ orchestrator \in {"RecipeOrchestrator", "LangGraphRecipeOrchestrator"}
    /\ output_format \in OutputFormats
    /\ invoked = << >>
    /\ final_result = None
    /\ IF orchestrator = "RecipeOrchestrator"
       THEN node = "scrape" /\ state = None
       ELSE /\ node = "initialize"
            /\ state = RecipeProcessingState("", None, TRUE, None, None)

\* process_recipe returns
Return(processing_result) ==
    /\ final_result' = processing_result
    /\ node' = "returned"

\* Steps 1 to 4 of RecipeOrchestrator.process_recipe
ProcessStep(agent, label, next) ==
    /\ orchestrator = "RecipeOrchestrator"
    /\ \E outcome \in CallOutcomes :
           /\ invoked' = Invoke(agent, outcome)
           /\ IF outcome.kind = "Exception"
              THEN Return(ProcessingResult(FALSE, None, None, Str(outcome.message)))
              ELSE IF ~outcome.success
              THEN Return(ProcessingResult(FALSE, None, None,
                              Str(label \o " failed: " \o outcome.error)))
              ELSE node' = next /\ final_result' = final_result
    /\ UNCHANGED <<orchestrator, output_format, state>>
    /\ UNCHANGED <<convVars, lookupVars, recipeVars, retryVars>>

process_recipe_scrape ==
    /\ node = "scrape"
    /\ ProcessStep("scrape", "Scraping", "parse")

process_recipe_parse ==
    /\ node = "parse"
    /\ ProcessStep("parse", "Parsing", "normalize")

process_recipe_normalize ==
    /\ node = "normalize"
    /\ ProcessStep("normalize", "Normalization", "convert")

process_recipe_convert ==
    /\ node = "convert"
    /\ ProcessStep("convert", "Conversion", "render")

\* Step 5: the JSON file is always rendered first
process_recipe_render ==
    /\ orchestrator = "RecipeOrchestrator"
    /\ node = "render"
    /\ \E outcome \in CallOutcomes :
           /\ invoked' = Invoke("render", outcome)
           /\ IF outcome.kind = "Exception"
              THEN Return(ProcessingResult(FALSE, None, None, Str(outcome.message)))
              ELSE IF ~outcome.success
              THEN Return(ProcessingResult(FALSE, None, None,
                              Str("JSON rendering failed: " \o outcome.error)))
              ELSE IF StrLower(output_format) # "json"
              THEN node' = "render_from_json" /\ final_result' = final_result
              ELSE Return(ProcessingResult(TRUE, "recipe", OutputPath("json"), None))
    /\ UNCHANGED <<orchestrator, output_format, state>>
    /\ UNCHANGED <<convVars, lookupVars, recipeVars, retryVars>>

\* Step 6: the requested format is derived from the JSON file
process_recipe_render_from_json ==
    /\ orchestrator = "RecipeOrchestrator"
    /\ node = "render_from_json"
    /\ \E outcome \in CallOutcomes :
           /\ invoked' = Invoke("render_from_json", outcome)
           /\ IF outcome.kind = "Exception"
              THEN Return(ProcessingResult(FALSE, None, None, Str(outcome.message)))
              ELSE IF ~outcome.success
              THEN Return(ProcessingResult(FALSE, None, None,
                              Str(output_format \o " rendering failed: "
                                  \o outcome.error)))
              ELSE Return(ProcessingResult(TRUE, "recipe",
                              OutputPath(output_format), None))
    /\ UNCHANGED <<orchestrator, output_format, state>>
    /\ UNCHANGED <<convVars, lookupVars, recipeVars, retryVars>>

\* the conditional edges of the workflow
_should_continue_after_scrape(s) == IF s.success THEN "continue" ELSE "end"

_should_continue_after_parse_always(s) == "continue"

_should_continue_after_parse(s) == IF s.success THEN "continue" ELSE "end"

_should_continue_after_normalize(s) == IF s.success THEN "continue" ELSE "end"

_should_continue_after_convert(s) == IF s.success THEN "continue" ELSE "end"

\* add_conditional_edges(node, decision, {"continue": next, "end": "finalize"})
Edge(decision, next) == IF decision = "continue" THEN next ELSE "finalize"

\* the state a node function leaves after the call of its agent
AfterCall(s, step, failed, raised, outcome) ==
    IF outcome.kind = "Exception"
    THEN [s EXCEPT !.current_step = step, !.success = FALSE,
                   !.error = Str(raised \o outcome.message)]
    ELSE IF outcome.success
    THEN [s EXCEPT !.current_step = step, !.recipe_data = "recipe"]
    ELSE [s EXCEPT !.current_step = step, !.success = FALSE,
                   !.error = Str(failed \o outcome.error)]

_initialize_processing ==
    /\ orchestrator = "LangGraphRecipeOrchestrator"
    /\ node = "initialize"
    /\ state' = [state EXCEPT !.current_step = "initialize", !.success = TRUE]
    /\ node' = "scrape"
    /\ UNCHANGED <<orchestrator, output_format, invoked, final_result>>
    /\ UNCHANGED <<convVars, lookupVars, recipeVars, retryVars>>

_scrape_recipe ==
    /\ orchestrator = "LangGraphRecipeOrchestrator"
    /\ node = "scrape"
    /\ \E outcome \in CallOutcomes :
           /\ invoked' = Invoke("scrape", outcome)
           /\ state' = AfterCall(state, "scrape", "Scraping failed: ",
                               "Scraping error: ", outcome)
    /\ node' = Edge(_should_continue_after_scrape(state'), "parse")
    /\ UNCHANGED <<orchestrator, output_format, final_result>>
    /\ UNCHANGED <<convVars, lookupVars, recipeVars, retryVars>>

_parse_recipe ==
    /\ orchestrator = "LangGraphRecipeOrchestrator"
    /\ node = "parse"
    /\ \E outcome \in CallOutcomes :
           /\ invoked' = Invoke("parse", outcome)
           /\ state' = AfterCall(state, "parse", "Parsing failed: ",
                               "Parsing error: ", outcome)
    /\ node' = Edge(_should_continue_after_parse(state'), "normalize")
    /\ UNCHANGED <<orchestrator, output_format, final_result>>
    /\ UNCHANGED <<convVars, lookupVars, recipeVars, retryVars>>

_normalize_recipe ==
    /\ orchestrator = "LangGraphRecipeOrchestrator"
    /\ node = "normalize"
    /\ \E outcome \in CallOutcomes :
           /\ invoked' = Invoke("normalize", outcome)
           /\ state' = AfterCall(state, "normalize", "Normalization failed: ",
                               "Normalization error: ", outcome)
    /\ node' = Edge(_should_continue_after_normalize(state'), "convert")
    /\ UNCHANGED <<orchestrator, output_format, final_result>>
    /\ UNCHANGED <<convVars, lookupVars, recipeVars, retryVars>>

_convert_units ==
    /\ orchestrator = "LangGraphRecipeOrchestrator"
    /\ node = "convert"
    /\ \E outcome \in CallOutcomes :
           /\ invoked' = Invoke("convert", outcome)
           /\ state' = AfterCall(state, "convert", "Unit conversion failed: ",
                               "Conversion error: ", outcome)
    /\ node' = Edge(_should_continue_after_convert(state'), "render")
    /\ UNCHANGED <<orchestrator, output_format, final_result>>
    /\ UNCHANGED <<convVars, lookupVars, recipeVars, retryVars>>

\* the render node after the JSON file was written
RenderFormat(s) ==
    IF StrLower(output_format) # "json"
    THEN \E outcome \in CallOutcomes :
             /\ invoked' = Append(Invoke("render", Answered(TRUE, "None")),
                                  [agent |-> "render_from_json", outcome |-> outcome])
             /\ state' =
                    IF outcome.kind = "Exception"
                    THEN [s EXCEPT !.success = FALSE,
                             !.error = Str("Rendering error: " \o outcome.message)]
                    ELSE IF ~outcome.success
                    THEN [s EXCEPT !.success = FALSE,
                             !.error = Str(output_format \o " rendering failed: "
                                           \o outcome.error)]
                    ELSE [s EXCEPT !.output_path = OutputPath(output_format)]
    ELSE /\ invoked' = Invoke("render", Answered(TRUE, "None"))
         /\ state' = [s EXCEPT !.output_path = OutputPath("json")]

_render_output ==
    /\ orchestrator = "LangGraphRecipeOrchestrator"
    /\ node = "render"
    /\ LET s == [state EXCEPT !.current_step = "render"]
       IN  \/ \E outcome \in CallOutcomes \ {Answered(TRUE, "None")} :
                  /\ invoked' = Invoke("render", outcome)
                  /\ state' =
                         IF outcome.kind = "Exception"
                         THEN [s EXCEPT !.success = FALSE,
                                  !.error = Str("Rendering error: "
                                                \o outcome.message)]
                         ELSE [s EXCEPT !.success = FALSE,
                                  !.error = Str("JSON rendering failed: "
                                                \o outcome.error)]
           \/ RenderFormat(s)
    /\ node' = "finalize"
    /\ UNCHANGED <<orchestrator, output_format, final_result>>
    /\ UNCHANGED <<convVars, lookupVars, recipeVars, retryVars>>

_finalize_processing ==
    /\ orchestrator = "LangGraphRecipeOrchestrator"
    /\ node = "finalize"
    /\ state' = [state EXCEPT !.current_step = "finalize"]
    /\ node' = "END"
    /\ UNCHANGED <<orchestrator, output_format, invoked, final_result>>
    /\ UNCHANGED <<convVars, lookupVars, recipeVars, retryVars>>

\* LangGraphRecipeOrchestrator.process_recipe after workflow.invoke
process_recipe ==
    /\ orchestrator = "LangGraphRecipeOrchestrator"
    /\ node = "END"
    /\ Return(ProcessingResult(state.success, state.recipe_data,
                               state.output_path, state.error))
    /\ UNCHANGED <<orchestrator, output_format, invoked, state>>
    /\ UNCHANGED <<convVars, lookupVars, recipeVars, retryVars>>

NextPipeline ==
    \/ process_recipe_scrape
    \/ process_recipe_parse
    \/ process_recipe_normalize
    \/ process_recipe_convert
    \/ process_recipe_render
    \/ process_recipe_render_from_json
    \/ _initialize_processing
    \/ _scrape_recipe
    \/ _parse_recipe
    \/ _normalize_recipe
    \/ _convert_units
    \/ _render_output
    \/ _finalize_processing
    \/ process_recipe

SpecPipeline == InitPipeline /\ [][NextPipeline]_vars

\* the agents in the order of the pipeline
Stages(format) ==
    <<"scrape", "parse", "normalize", "convert", "render">>
    \o (IF StrLower(format) # "json" THEN <<"render_from_json">> ELSE << >>)

InOrder ==
    /\ Len(invoked) <= Len(Stages(output_format))
    /\ \A i \in 1..Len(invoked) : invoked[i].agent = Stages(output_format)[i]

OnlyAfterSuccess ==
    \A i \in 1..Len(invoked) : i < Len(invoked) => Succeeded(invoked[i].outcome)

StageFailed == \E i \in 1..Len(invoked) : ~Succeeded(invoked[i].outcome)

FailureReported ==
    /\ ~final_result.success
    /\ final_result.error # None
    /\ final_result.error.text # ""
    /\ final_result.output_path = None

ClassicFailureReached ==
    /\ orchestrator = "RecipeOrchestrator"
    /\ final_result # None
    /\ Len(invoked) = 6
    /\ invoked[6].outcome.kind = "Exception"
    /\ ~final_result.success

PipelineSucceeded ==
    /\ final_result # None /\ final_result.success
    /\ Len(invoked) = 6

(***************************************************************************)
(* Part K.  BaseLLMClient._retry_with_backoff.                             *)
(*                                                                         *)
(* An action is one pass of the loop: the call of func and, when it        *)
(* raises, either the re-raise or the sleep before the next pass.  What    *)
(* func does and the value of random.uniform(0, 1) are inputs.  Delays are *)
(* tenths of a second.                                                     *)
(***************************************************************************)
MaxRetries == 4

InitialDelays == {5, 10}

\* random.uniform(0, 1)
Jitters == {0, 5, 10}

FuncValues == {"success"}

FuncExceptions == {"API error", "timeout"}

FuncOutcomes ==
    {[kind |-> "return", value |-> v] : v \in FuncValues}
    \cup {[kind |-> "raise", exception |-> e] : e \in FuncExceptions}

InitRetry ==
    /\ fp = "down" /\ op = "start" /\ args = [family |-> "none"]
    /\ res = NoResult /\ back = NoResult
    /\ use_usda_api = FALSE /\ api_key = ""
    /\ Constructed
    /\ NoRecipe
    /\ NoPipeline
    /\ max_retries \in 0..MaxRetries
    /\ initial_delay \in InitialDelays
    /\ attempt = 0
    /\ call_count = 0
    /\ func_outcomes = << >>
    /\ sleeps = << >>
    /\ retry = None

RECURSIVE Pow2(_)
Pow2(n) == IF n = 0 THEN 1 ELSE 2 * Pow2(n - 1)

\* initial_delay * (2 ** attempt) + random.uniform(0, 1)
Delay(delay, n, jitter) == delay * Pow2(n) + jitter

LastAttempt_never(n, retries) == n = retries

\* attempt == max_retries - 1
LastAttempt(n, retries) == n = retries - 1

\* one pass of "for attempt in range(max_retries)"
Attempt ==
    /\ retry = None
    /\ attempt < max_retries
    /\ \E outcome \in FuncOutcomes :
           /\ call_count' = call_count + 1
           /\ func_outcomes' = Append(func_outcomes, outcome)
           /\ IF outcome.kind = "return"
              THEN /\ retry' = [kind |-> "returned", value |-> outcome.value]
                   /\ UNCHANGED <<attempt, sleeps>>
              ELSE IF LastAttempt(attempt, max_retries)
              THEN /\ retry' = [kind |-> "raised", exception |-> outcome.exception]
                   /\ UNCHANGED <<attempt, sleeps>>
              ELSE /\ \E jitter \in Jitters :
                          sleeps' = Append(sleeps, Delay(initial_delay, attempt, jitter))
                   /\ attempt' = attempt + 1
                   /\ retry' = retry
    /\ UNCHANGED <<max_retries, initial_delay>>
    /\ UNCHANGED <<convVars, lookupVars, recipeVars, pipelineVars>>

\* the statement after the loop
Exhausted ==
    /\ retry = None
    /\ attempt >= max_retries
    /\ retry' = [kind |-> "raised", exception |-> "Max retries exceeded"]
    /\ UNCHANGED <<max_retries, initial_delay, attempt, call_count, func_outcomes,
                   sleeps>>
    /\ UNCHANGED <<convVars, lookupVars, recipeVars, pipelineVars>>

NextRetry == Attempt \/ Exhausted

SpecRetry == InitRetry /\ [][NextRetry]_vars

FailedCalls(k) == \A i \in 1..k : func_outcomes[i].kind = "raise"

ReturnedAfter(k) ==
    /\ k < max_retries
    /\ FailedCalls(k)
    /\ func_outcomes[k + 1] = [kind |-> "return", value |-> retry.value]
    /\ call_count = k + 1
    /\ Len(sleeps) = k

RaisedAfterAll ==
    /\ FailedCalls(max_retries)
    /\ retry.exception = func_outcomes[max_retries].exception
    /\ call_count = max_retries
    /\ Len(sleeps) = max_retries - 1

RetryOutcome ==
    max_retries >= 1 =>
        /\ Len(func_outcomes) = call_count
        /\ call_count <= max_retries
        /\ retry # None /\ retry.kind = "returned" => ReturnedAfter(call_count - 1)
        /\ retry # None /\ retry.kind = "raised" => RaisedAfterAll
        /\ (retry = None /\ call_count = max_retries) => FALSE

\* C24: for max_retries >= 1, a function that fails on its first k calls
\* (k < max_retries) and then succeeds makes _retry_with_backoff return that
\* value after exactly k + 1 calls and k sleeps; a function that fails on all
\* max_retries calls makes it raise the last exception after exactly
\* max_retries calls and max_retries - 1 sleeps; once it has returned or
\* raised the function is not called again.
C24_RetryWithBackoff ==
    /\ []RetryOutcome
    /\ [][retry # None => call_count' = call_count]_vars

C24_Witness ==
    /\ max_retries = 3
    /\ retry = [kind |-> "returned", value |-> "success"]
    /\ call_count = 3
    /\ Len(sleeps) = 2

RetriesExhausted ==
    /\ max_retries = 3
    /\ retry = [kind |-> "raised", exception |-> "timeout"]
    /\ call_count = 3
    /\ Len(sleeps) = 2
    /\ func_outcomes[1].exception = "API error"

(***************************************************************************)
(* Part L.  NormalizerAgent._normalize_unit on its own: the unit is drawn  *)
(* from the keys and the values of the table, their upper-case and padded  *)
(* spellings and a few units the table does not have; the function is      *)
(* applied to it and then to its own result.  "" stands for both falsy     *)
(* arguments, the empty string and None.                                   *)
(***************************************************************************)
MappingKeys == {unit_mappings[k][1] : k \in 1..Len(unit_mappings)}

MappingValues == {unit_mappings[k][2] : k \in 1..Len(unit_mappings)}

UnitTexts ==
    MappingKeys \cup MappingValues
    \cup {StrUpper(u) : u \in MappingKeys}
    \cup {" " \o u \o " " : u \in MappingKeys}
    \cup {"", "pinch", "Pinch ", "cloves"}

InitUnit ==
    /\ fp = "down"
    /\ op = "start"
    /\ \E u \in UnitTexts : args = [family |-> "unit", unit |-> u]
    /\ res = NoResult /\ back = NoResult
    /\ use_usda_api = FALSE /\ api_key = ""
    /\ Constructed
    /\ NoRecipe
    /\ NoFlow

NormalizeUnit ==
    /\ op = "start"
    /\ op' = "_normalize_unit"
    /\ res' = [kind |-> "unit", unit |-> _normalize_unit(args.unit)]
    /\ UNCHANGED <<fp, args, back>>
    /\ UNCHANGED <<lookupVars, recipeVars, flowVars>>

\* _normalize_unit(_normalize_unit(unit))
NormalizeUnitAgain ==
    /\ op = "_normalize_unit"
    /\ op' = "again"
    /\ back' = [kind |-> "unit", unit |-> _normalize_unit(res.unit)]
    /\ UNCHANGED <<fp, args, res>>
    /\ UNCHANGED <<lookupVars, recipeVars, flowVars>>

NextUnit == NormalizeUnit \/ NormalizeUnitAgain

SpecUnit == InitUnit /\ [][NextUnit]_vars

\* the abbreviation the table lists for a key
Listed(key) == DictGet(unit_mappings, key, key, 1)

\* C25: _normalize_unit maps every key of its mapping table to the
\* abbreviation listed for it ("tablespoons" to "tbsp", "c" to "cup", "T" to
\* "tbsp", "t" to "tsp"), returns an empty or null unit unchanged, and is
\* idempotent.
C25_UnitTable ==
    /\ (op # "start" /\ args.unit \in MappingKeys) => res.unit = Listed(args.unit)
    /\ (op # "start" /\ args.unit = "") => res.unit = ""
    /\ op = "again" => back.unit = res.unit

\* what holds of the code: the key "T" apart, which gives "tsp"
UnitTableAsCoded ==
    /\ (op # "start" /\ args.unit \in MappingKeys \ {"T"}) =>
           res.unit = Listed(args.unit)
    /\ (op # "start" /\ args.unit = "T") => res.unit = "tsp"
    /\ (op # "start" /\ args.unit = "") => res.unit = ""
    /\ op = "again" => back.unit = res.unit

CapitalTReached == op = "again" /\ args.unit = "T" /\ res.unit = "tsp"

\* a quantity that is present and above zero
Positive(quantity) == quantity # NoQuantity /\ quantity > 0

\* the three parallel pairs of an ingredient
Parallel(ingredient) ==
    <<ingredient.metric_quantity, ingredient.metric_unit,
      ingredient.imperial_quantity, ingredient.imperial_unit,
      ingredient.weight_quantity, ingredient.weight_unit>>

NoParallel == <<NoQuantity, "", NoQuantity, "", NoQuantity, "">>

\* an amount in the small unit below 1000 and in the large unit from 1000 on
Bucketed(amount, small, large) ==
    IF RatLess(amount, Rat(1000, 1))
    THEN <<smart_round(amount, small), small>>
    ELSE <<smart_round(RatScale(amount, 1, 1000), large), large>>

\* the volume in ml and the weight in g of an ingredient of density d
VolumeOf(ingredient, d) ==
    IF _is_volume_unit(ingredient.unit)
    THEN convert_volume_units_to_ml(ingredient.quantity, ingredient.unit)
    ELSE RatDiv(_convert_weight_to_grams(ingredient.quantity, ingredient.unit),
                Rat(d.num, d.den))

WeightOf(ingredient, d) ==
    IF _is_volume_unit(ingredient.unit)
    THEN RatMul(convert_volume_units_to_ml(ingredient.quantity, ingredient.unit),
                Rat(d.num, d.den))
    ELSE _convert_weight_to_grams(ingredient.quantity, ingredient.unit)

Measured(ingredient) ==
    ingredient.unit # ""
    /\ (_is_volume_unit(ingredient.unit) \/ _is_weight_unit(ingredient.unit))

EnrichedAsStated(before, after, looked, density) ==
    /\ (Positive(before.quantity) /\ Measured(before) /\ looked /\ density # None) =>
           /\ <<after.metric_quantity, after.metric_unit>> =
                  Bucketed(VolumeOf(before, density.density_g_ml), "ml", "l")
           /\ <<after.weight_quantity, after.weight_unit>> =
                  Bucketed(WeightOf(before, density.density_g_ml), "g", "kg")
    /\ (~Positive(before.quantity) \/ ~looked \/ density = None) =>
           Parallel(after) = NoParallel

\* C26: the enrichment of an ingredient with a positive quantity, a volume or
\* weight unit and a found density d sets the metric pair to the volume, in
\* ml below 1000 ml and in l from 1000 ml on, and the weight pair to the
\* weight (volume * d, or the given weight), in g below 1000 g and in kg from
\* 1000 g on, both smart-rounded; with no density found, or with the quantity
\* missing or zero, none of the metric, imperial and weight pairs is set.
C26_EnrichmentPairs ==
    [][ \A i \in 1..Len(current_recipe.ingredients) :
           Enriches(i) =>
               EnrichedAsStated(current_recipe.ingredients[i],
                                current_recipe'.ingredients[i],
                                calls' = calls + 1, found') ]_vars

\* five cups of sugar: more than a litre, less than a kilogram
C26_Witness ==
    /\ enriched = 1
    /\ stage = "parsed"
    /\ given.ingredients[1].quantity = 500
    /\ given.ingredients[1].unit = "cup"
    /\ found # None
    /\ current_recipe.ingredients[1].metric_unit = "l"
    /\ current_recipe.ingredients[1].metric_quantity = 118
    /\ current_recipe.ingredients[1].weight_unit = "g"
    /\ current_recipe.ingredients[1].weight_quantity = 85200

\* eight ounces of sugar: the volume from the weight
OuncesEnriched ==
    /\ enriched = 1
    /\ stage = "parsed"
    /\ given.ingredients[1].unit = "oz"
    /\ current_recipe.ingredients[1].metric_unit = "ml"
    /\ current_recipe.ingredients[1].weight_unit = "g"
    /\ current_recipe.ingredients[1].weight_quantity = 22700

\* 1500 g of brown sugar: kilograms
KilogramsEnriched ==
    /\ enriched = 1
    /\ stage = "parsed"
    /\ given.ingredients[1].unit = "g"
    /\ found # None
    /\ current_recipe.ingredients[1].weight_unit = "kg"
    /\ current_recipe.ingredients[1].weight_quantity = 150

\* no density for the name: nothing is set
NothingFound ==
    /\ enriched = 1
    /\ stage = "parsed"
    /\ given.ingredients[1].unit = "kg"
    /\ calls = 1
    /\ found = None
    /\ Parallel(current_recipe.ingredients[1]) = NoParallel

(***************************************************************************)
(* Part M.  The millilitres of a volume in the three components: the       *)
(* quantity and the unit are drawn, the three conversions to ml are        *)
(* applied to them, and then the parser's enrichment and the converter's   *)
(* metric conversion to an ingredient with them.                           *)
(***************************************************************************)
\* hundredths; 5.63 fl oz is 166.4988 ml by one factor and 166.5016 ml by
\* the other
VolumeQuantities == {25 * k : k \in 0..MaxQuarters} \cup {1, 10, 423, 563}

InitMillilitres ==
    /\ fp = "down"
    /\ op = "start"
    /\ \E q \in VolumeQuantities, u \in VolumeUnit :
           args = [family |-> "millilitres", quantity |-> q, unit |-> u]
    /\ res = NoResult /\ back = NoResult
    /\ use_usda_api = FALSE /\ api_key = ""
    /\ Constructed
    /\ NoRecipe
    /\ NoFlow

\* amount * conversions[unit_name] of USDAFoodAPI._convert_to_ml as a rational
USDAMillilitres(quantity, unit) ==
    LET volume_ml == _convert_to_ml(Frac(quantity, 100), unit)
    IN  Rat(volume_ml.num, volume_ml.den)

ToMillilitres ==
    /\ op = "start"
    /\ op' = "millilitres"
    /\ res' = [kind |-> "millilitres",
               density_lookup |-> convert_volume_units_to_ml(args.quantity, args.unit),
               usda |-> USDAMillilitres(args.quantity, args.unit),
               converter |-> RatMul(RatOfQty(args.quantity),
                                    VOLUME_CONVERSIONS(args.unit))]
    /\ UNCHANGED <<fp, args, back>>
    /\ UNCHANGED <<lookupVars, recipeVars, flowVars>>

\* a quantity and its unit as hundredths of a millilitre
AsMillilitres(quantity, unit) == IF unit = "l" THEN quantity * 1000 ELSE quantity

\* the metric pair the parser writes and the one the converter returns
MetricValues ==
    /\ op = "millilitres"
    /\ op' = "metric"
    /\ LET ingredient == Ingredient("sugar", args.quantity, args.unit)
           enhanced == _enhance_ingredient_with_density(
                           ingredient, [density_g_ml |-> Frac(85, 100)])
           result == _convert_to_metric(ingredient)
       IN  back' = [kind |-> "metric",
                    parser |-> AsMillilitres(enhanced.metric_quantity,
                                             enhanced.metric_unit),
                    converter |-> IF result = NoResult THEN NoQuantity
                                  ELSE AsMillilitres(result.converted_quantity,
                                                     result.converted_unit)]
    /\ UNCHANGED <<fp, args, res>>
    /\ UNCHANGED <<lookupVars, recipeVars, flowVars>>

NextMillilitres == ToMillilitres \/ MetricValues

SpecMillilitres == InitMillilitres /\ [][NextMillilitres]_vars

\* C27: for every volume unit u and quantity q, convert_volume_units_to_ml(q, u)
\* and _convert_to_ml(q, u) equal q * VOLUME_CONVERSIONS[u], and the parser's
\* metric enrichment and the converter's metric conversion of the same
\* ingredient give the same millilitre value.
C27_OneFactor ==
    /\ op # "start" =>
           /\ RatEq(res.density_lookup, res.converter)
           /\ RatEq(res.usda, res.converter)
    /\ (op = "metric" /\ args.quantity > 0 /\ args.unit \notin {"ml", "l"}) =>
           back.parser = back.converter

\* the units whose factors differ between the tables
Diverging == {"tsp", "tbsp", "fl oz"}

\* what holds of the code: the two lookups agree with each other, and with
\* the converter for every unit but tsp, tbsp and fl oz
MillilitresAsCoded ==
    op # "start" =>
        /\ RatEq(res.density_lookup, res.usda)
        /\ (args.unit \notin Diverging \/ args.quantity = 0)
               => RatEq(res.density_lookup, res.converter)
        /\ (args.unit \in Diverging /\ args.quantity > 0)
               => RatLess(res.converter, res.density_lookup)

\* 5.63 fl oz: 167 ml from the parser, 166 ml from the converter
DisplayDiffers ==
    /\ op = "metric"
    /\ args.quantity = 563 /\ args.unit = "fl oz"
    /\ back.parser = 16700
    /\ back.converter = 16600

\* the parser's enrichment set the metric and the weight pair
Populated(ingredient) ==
    /\ ingredient.metric_quantity # NoQuantity /\ ingredient.metric_unit # ""
    /\ ingredient.weight_quantity # NoQuantity /\ ingredient.weight_unit # ""

\* no pair that was set is reset
Survives(before, after) ==
    /\ before.metric_quantity # NoQuantity => after.metric_quantity # NoQuantity
    /\ before.metric_unit # "" => after.metric_unit # ""
    /\ before.imperial_quantity # NoQuantity => after.imperial_quantity # NoQuantity
    /\ before.imperial_unit # "" => after.imperial_unit # ""
    /\ before.weight_quantity # NoQuantity => after.weight_quantity # NoQuantity
    /\ before.weight_unit # "" => after.weight_unit # ""

\* C28: for an ingredient whose metric and weight pairs were populated by the
\* parser's enrichment, after convert with any target system these pairs are
\* still populated: convert never resets a populated metric, imperial or
\* weight pair to null.
C28_ParallelFieldsSurvive ==
    ConvertReturned =>
        \A i \in 1..Len(given.ingredients) :
            Populated(given.ingredients[i]) =>
                /\ Populated(agent_result.data.ingredients[i])
                /\ Survives(given.ingredients[i], agent_result.data.ingredients[i])

\* what holds of the code: an ingredient that convert leaves alone keeps its
\* pairs; one that it converts has no metric pair, an imperial pair only in
\* cup, tbsp, tsp, oz or lb, and a weight pair only in g, kg, oz or lb
ParallelFieldsAsCoded ==
    ConvertReturned =>
        \A i \in 1..Len(given.ingredients) :
            LET before == given.ingredients[i]
                after == agent_result.data.ingredients[i]
            IN  \/ Parallel(after) = Parallel(before) /\ after.unit = before.unit
                \/ /\ after.metric_quantity = NoQuantity /\ after.metric_unit = ""
                   /\ after.imperial_unit \in {"", after.unit}
                   /\ after.weight_unit \in {"", after.unit}
                   /\ after.imperial_unit # "" =>
                          after.unit \in {"cup", "tbsp", "tsp", "oz", "lb"}
                   /\ after.weight_unit # "" => after.unit \in {"g", "kg", "oz", "lb"}

\* two cups of sugar, enriched to 473 ml and 341 g, after convert to metric
EnrichmentLost ==
    /\ ConvertReturned
    /\ target = "metric"
    /\ converts = 1
    /\ Len(given.ingredients) = 1
    /\ given.ingredients[1].unit = "cup"
    /\ given.ingredients[1].quantity = 200
    /\ Populated(given.ingredients[1])
    /\ agent_result.data.ingredients[1].unit = "ml"
    /\ Parallel(agent_result.data.ingredients[1]) = NoParallel

(***************************************************************************)
(* Part N.  The conversion cache of one ConverterAgent on its own: calls   *)
(* of _convert_ingredient with ingredients and target systems drawn from   *)
(* small sets, at most MaxCacheCalls of them.  given is the ingredient of  *)
(* the last call, target its target system and agent_result what it        *)
(* returned, with the flag that the key was in the cache.                  *)
(***************************************************************************)
MaxCacheCalls == 2

Noted(ingredient, notes) == [ingredient EXCEPT !.notes = notes]

\* "2.0_cup_brown_sugar_metric" is the key of the first and of the second
CacheIngredients ==
    { Ingredient("brown_sugar", 200, "cup"),
      Ingredient("sugar", 200, "cup_brown"),
      Ingredient("sugar", 200, "cup"),
      Noted(Ingredient("sugar", 200, "cup"), "sifted"),
      Ingredient("sugar", 200, "CUP"),
      Ingredient("sugar", 300, "lb"),
      Ingredient("popcorn", 200, "clove") }

CacheTargets == {"metric", "imperial", "weight", "us"}

InitCache ==
    /\ fp = "down" /\ op = "start" /\ args = [family |-> "none"]
    /\ res = NoResult /\ back = NoResult
    /\ use_usda_api = FALSE /\ api_key = ""
    /\ Constructed
    /\ NoFlow
    /\ stage = "caching"
    /\ current_recipe = None
    /\ enriched = 0
    /\ given = None
    /\ agent_result = None
    /\ target = ""
    /\ conversion_cache = << >>
    /\ converts = 0
    /\ settings_processing = [preferred_volume_unit |-> "cup"]

\* one call of _convert_ingredient
ConvertIngredient ==
    /\ stage = "caching"
    /\ converts < MaxCacheCalls
    /\ \E ingredient \in CacheIngredients, target_system \in CacheTargets :
           LET converted == _convert_ingredient(conversion_cache, ingredient,
                                                target_system)
           IN  /\ given' = ingredient
               /\ target' = target_system
               /\ agent_result' =
                      [result |-> converted.result,
                       cached |-> CacheKey(ingredient, target_system)
                                      \in DOMAIN conversion_cache]
               /\ conversion_cache' = converted.conversion_cache
    /\ converts' = converts + 1
    /\ UNCHANGED <<stage, current_recipe, enriched, settings_processing>>
    /\ UNCHANGED <<convVars, lookupVars, flowVars>>

NextCache == ConvertIngredient

SpecCache == InitCache /\ [][NextCache]_vars

\* what the call returns when nothing is cached
Afresh(ingredient, target_system) ==
    Fresh(<< >>, CacheKey(ingredient, target_system), ingredient,
          ConvertTo(ingredient, target_system)).result

\* the entry under the key of the last call was stored for its tuple
OwnEntry ==
    LET entry == conversion_cache[CacheKey(given, target)]
    IN  /\ entry.original_quantity = given.quantity
        /\ entry.original_unit = StrLower(given.unit)

\* C29: an ingredient converted with a given (quantity, unit, name, target
\* system) gets the same quantity, unit, parallel fields, notes and
\* approximation flag from the cache as from a fresh computation; two distinct
\* tuples never share a cache entry; a failed conversion is never cached.
C29_CacheTransparent ==
    (stage = "caching" /\ converts > 0) =>
        /\ agent_result.result = Afresh(given, target)
        /\ agent_result.cached => OwnEntry
        /\ \A k \in DOMAIN conversion_cache :
               conversion_cache[k].kind = "ConversionResult"

\* what holds of the code: the same for units and names without "_"
CacheAsCoded ==
    (stage = "caching" /\ converts > 0) =>
        /\ ~StrContains(given.unit, "_") =>
               /\ agent_result.result = Afresh(given, target)
               /\ agent_result.cached => OwnEntry
        /\ \A k \in DOMAIN conversion_cache :
               conversion_cache[k].kind = "ConversionResult"

\* a hit for the same tuple with other notes: the notes are the ingredient's
CacheHit ==
    /\ stage = "caching"
    /\ converts = 2
    /\ agent_result.cached
    /\ given.notes = "sifted"
    /\ agent_result.result.ingredient.notes = "sifted"
    /\ agent_result.result.ingredient.unit = "ml"

\* 2 cup_brown of sugar converted by the entry of 2 cup of brown_sugar
EntryShared ==
    /\ stage = "caching"
    /\ converts = 2
    /\ given.unit = "cup_brown"
    /\ agent_result.cached
    /\ agent_result.result # None
    /\ agent_result.result.ingredient.unit = "ml"
    /\ Afresh(given, target) = None

(***************************************************************************)
(* Part O.  convert on recipes that have one instruction and no            *)
(* ingredient: the temperature of the instruction, its unit and the target *)
(* system are drawn; a second convert takes the recipe the first returned. *)
(***************************************************************************)
InstructionTemperatures == Temperatures \cup {NoQuantity}

Heated(temperature, temperature_unit) ==
    Recipe("", "", <<>>,
           << InstructionStep("Bake it", NoQuantity, temperature, temperature_unit,
                              <<>>) >>,
           NoQuantity, NoQuantity, NoQuantity, NoQuantity, "", "")

InitTemperatures ==
    /\ fp \in {"down", "up"}
    /\ op = "start" /\ args = [family |-> "none"]
    /\ res = NoResult /\ back = NoResult
    /\ use_usda_api = FALSE /\ api_key = ""
    /\ Constructed
    /\ NoFlow
    /\ stage = "instructions"
    /\ \E t \in InstructionTemperatures, u \in {"F", "C"} :
           current_recipe = Heated(t, u)
    /\ enriched = 0
    /\ given = None
    /\ agent_result = None
    /\ target = ""
    /\ conversion_cache = << >>
    /\ converts = 0
    /\ settings_processing = [preferred_volume_unit |-> "cup"]

\* ConverterAgent.convert on the recipe as it stands
ConvertInstructions ==
    /\ stage \in {"instructions", "converted"}
    /\ converts < MaxConverts
    /\ \E target_system \in TargetSystems :
          /\ ConverterReturns(convert(conversion_cache, settings_processing,
                                      current_recipe, target_system))
          /\ target' = target_system
    /\ converts' = converts + 1
    /\ UNCHANGED <<enriched, settings_processing>>
    /\ UNCHANGED <<lookupVars, convVars, flowVars>>

NextTemperatures == ConvertInstructions

SpecTemperatures == InitTemperatures /\ [][NextTemperatures]_vars

\* the instruction follows the target system, given that it has a temperature
Follows(before, after, target_system, has_temperature) ==
    /\ (has_temperature /\ target_system = "metric") =>
           /\ after.temperature_unit = "C"
           /\ before.temperature_unit = "F" =>
                  after.temperature =
                      convert_temperature(before.temperature, "F", "C")
                          .converted_quantity
    /\ (has_temperature /\ target_system = "imperial") =>
           after.temperature_unit = "F"
    /\ (~has_temperature \/ target_system = "weight") =>
           /\ after.temperature = before.temperature
           /\ after.temperature_unit = before.temperature_unit

\* C30: after convert succeeds with target "metric" every instruction that
\* has a temperature value (including 0) has temperature_unit "C" and, if it
\* was given in F, the value (F - 32) * 5/9 rounded to one decimal; after
\* target "imperial" every such instruction has temperature_unit "F";
\* instructions without a temperature and conversions to "weight" leave the
\* temperature and its unit unchanged.
C30_TemperaturesFollow ==
    (ConvertReturned /\ agent_result.success) =>
        \A k \in 1..Len(given.instructions) :
            Follows(given.instructions[k], agent_result.data.instructions[k],
                    Resolved, given.instructions[k].temperature # NoQuantity)

\* what holds of the code: the same for the temperatures that are not 0
TemperaturesAsCoded ==
    (ConvertReturned /\ agent_result.success) =>
        \A k \in 1..Len(given.instructions) :
            /\ Follows(given.instructions[k], agent_result.data.instructions[k],
                       Resolved, Truthy(given.instructions[k].temperature))
            /\ given.instructions[k].temperature = 0 =>
                   agent_result.data.instructions[k] = given.instructions[k]

\* 0 degrees F stay 0 degrees F after convert to metric
ZeroKept ==
    /\ stage = "converted"
    /\ target = "metric"
    /\ Len(given.instructions) = 1
    /\ given.instructions[1].temperature = 0
    /\ given.instructions[1].temperature_unit = "F"
    /\ agent_result.data.instructions[1].temperature = 0
    /\ agent_result.data.instructions[1].temperature_unit = "F"

\* 350 degrees F are 176.7 degrees C
OvenConverted ==
    /\ stage = "converted"
    /\ target = "metric"
    /\ Len(given.instructions) = 1
    /\ given.instructions[1].temperature = 35000
    /\ agent_result.data.instructions[1].temperature = 17670
    /\ agent_result.data.instructions[1].temperature_unit = "C"

====
